---- MODULE Spec2Model ----
(***************************************************************************)
(* Model of the tos_signer bindings (src/rust_py/tos_signer/src/lib.rs):   *)
(* inverted-key derivation, the deterministic Schnorr signer and the       *)
(* shield commitment proof, over a prime-order group.                      *)
(*                                                                         *)
(* The Ristretto group is cyclic of prime order l.  A point is written as  *)
(* its multiple of a fixed base point (p stands for p*B), a scalar as an   *)
(* integer mod l, so point addition is addition mod l and scalar           *)
(* multiplication is multiplication mod l.  SHA3-512, the ChaCha20 stream  *)
(* and the merlin transcript are functions whose values the source does    *)
(* not fix: `oracle` holds the outputs drawn so far, one per input, so an  *)
(* input queried twice gets the same answer and a new input gets any.      *)
(***************************************************************************)
EXTENDS Integers, Sequences, FiniteSets, TLC

VARIABLES
    oracle,  \* outputs of SHA3-512 / ChaCha20 / merlin drawn so far
    calls,   \* the exposed calls made so far, with their locals, latest last
    ver,     \* the verification made of the latest signature, or None
    ncalls,  \* how many exposed calls a behaviour makes (fixed by Init)
    statics, \* the lazy statics PC_GENS, G and H: state, value, initializations
    threads  \* the calls that run at the same time, one per thread

vars == <<oracle, calls, ver, ncalls, statics, threads>>

None == [none |-> TRUE]

----------------------------------------------------------------------------
(* Bounds of the model and program constants *)

\* order l of the scalar field / group (a small prime standing for 2^252+...)
GroupOrder == 5
\* Pedersen generators B and B_blinding
G == 1
H == 2
\* width of a compressed point and of a scalar encoding
PointLen == 32
\* seed bytes 0..MaxSeed (all below GroupOrder, as 255 is below l)
MaxSeed == 2
\* 32-byte private keys whose little-endian value is 0..MaxKey
MaxKey == 6
\* messages are the one-byte strings <<0>>..<<MaxMsg>>
MaxMsg == 1
\* recipients of a shielding are the seed bytes 0..MaxDestSeed
MaxDestSeed == 2
\* amounts shielded are 0..MaxAmount (with MaxAmount + 1 below GroupOrder,
\* as 2^64 is below l)
MaxAmount == 2
\* recipients of two shieldings in a row are the seed bytes 1..MaxPairSeed
MaxPairSeed == 2
\* encoded payloads given to build_signing_bytes have 0 .. MaxPayload bytes
MaxPayload == 2
\* amounts of two shieldings in a row to one recipient are 1..MaxPairAmount
MaxPairAmount == 2
\* lists of equal transfers have 1..MaxShortList transfers, or MaxTransfers - 1
\* or MaxTransfers, one more than a u16 count can hold
MaxShortList == 40
MaxTransfers == 65536
\* the threads that call at the same time are 1..MaxThread
MaxThread == 2
\* the seed bytes of three calls in a row are 2..MaxRetrySeed
MaxRetrySeed == 2
\* the longest extra data given to encode_transfer_payload, one byte more
\* than a u16 length can count
MaxExtraLen == 65536

Scalars == 0 .. (GroupOrder - 1)
Points == 0 .. (GroupOrder - 1)
Bytes == 0 .. 255
\* a SHA3-512 output / 64 bytes of stream, as its little-endian value;
\* one value above the group order so that the wide reduction acts
Digests == 0 .. GroupOrder

SeedBytes == 0 .. MaxSeed
Msgs == {<<b>> : b \in 0 .. MaxMsg}

----------------------------------------------------------------------------
(* Scalar and point arithmetic (curve25519_dalek Scalar / RistrettoPoint) *)

ScalarAdd(a, b) == (a + b) % GroupOrder
ScalarMul(a, b) == (a * b) % GroupOrder
ScalarNeg(a) == (GroupOrder - a) % GroupOrder

RECURSIVE ScalarPow(_, _)
ScalarPow(a, n) == IF n = 0 THEN 1 % GroupOrder ELSE ScalarMul(a, ScalarPow(a, n - 1))

\* Scalar::invert: a^(l-2); the inverse of zero comes out as zero
invert(a) == ScalarPow(a, GroupOrder - 2)

PointAdd(p, q) == (p + q) % GroupOrder
PointSub(p, q) == (p + GroupOrder - q) % GroupOrder
\* scalar * point
PointMul(s, p) == (s * p) % GroupOrder

----------------------------------------------------------------------------
(* Byte encodings *)

Zeros(n) == [i \in 1 .. n |-> 0]
\* the 31 zero bytes above the low byte of a 32-byte little-endian string
HighZeros == Zeros(PointLen - 1)

\* little-endian value of a 32-byte string, reduced mod l as it is read
RECURSIVE LeMod(_, _)
LeMod(bytes, i) ==
    IF i > PointLen THEN 0
    ELSE (bytes[i] + 256 * LeMod(bytes, i + 1)) % GroupOrder

\* Scalar::from_bytes_mod_order
from_bytes_mod_order(bytes) == LeMod(bytes, 1)

\* from_bytes_mod_order_wide, had it taken the low bytes without reducing
from_bytes_mod_order_wide_unreduced(d) == d

\* Scalar::from_bytes_mod_order_wide of a 64-byte output of value d
from_bytes_mod_order_wide(d) == d % GroupOrder

\* Scalar::as_bytes: the canonical 32-byte little-endian encoding
as_bytes(s) == <<s>> \o HighZeros

\* the 32-byte little-endian string of value v (v below 256)
Le32(v) == <<v>> \o HighZeros

\* RistrettoPoint::compress (the identity compresses to 32 zero bytes)
compress(p) == <<p>> \o HighZeros

Ok(v) == [ok |-> TRUE, val |-> v]
Err(msg) == [ok |-> FALSE, val |-> msg]

\* Scalar::from_canonical_bytes: the scalar, if bytes is its encoding
ScalarFromCanonical(bytes) ==
    IF Len(bytes) = PointLen /\ bytes[1] \in Scalars /\ as_bytes(bytes[1]) = bytes
    THEN Ok(bytes[1]) ELSE Err("DecodeError")

\* CompressedRistretto::decompress: the point whose encoding bytes is
decompress(bytes) ==
    IF Len(bytes) = PointLen /\ bytes[1] \in Points /\ compress(bytes[1]) = bytes
    THEN Ok(bytes[1]) ELSE Err("DecodeError")

----------------------------------------------------------------------------
(* The external primitives *)

Sha3Query(input) == <<"sha3_512", input>>

\* Ext, had a hash or a stream answered anew each time it was asked
Ext_answering_anew(o, q, d) == (q :> d) @@ o

\* o extended at query q with answer d, unless q was answered before
Ext(o, q, d) == IF q \in DOMAIN o THEN o ELSE (q :> d) @@ o

----------------------------------------------------------------------------
(* Key derivation *)

\* keypair_from_byte, had it not inverted the private key
keypair_from_byte_without_invert(byte) ==
    LET bytes == <<byte>> \o HighZeros
        private == from_bytes_mod_order(bytes)
        public == PointMul(private, H)
    IN  <<private, public>>

keypair_from_byte(byte) ==
    LET bytes == <<byte>> \o HighZeros
        private == from_bytes_mod_order(bytes)
        public == PointMul(invert(private), H)
    IN  <<private, public>>

\* keypair_from_byte over the seed bytes of the model, computed once
KeypairOfByte == [byte \in Scalars |-> keypair_from_byte(byte)]

keypair_from_private_key_bytes(key) ==
    LET private == from_bytes_mod_order(key)
        public == PointMul(invert(private), H)
    IN  <<private, public>>

----------------------------------------------------------------------------
(* Signing helpers *)

\* b"tos-signer/deterministic-nonce/v1"
NonceTag ==
    <<116, 111, 115, 45, 115, 105, 103, 110, 101, 114, 47, 100, 101, 116, 101,
      114, 109, 105, 110, 105, 115, 116, 105, 99, 45, 110, 111, 110, 99, 101,
      47, 118, 49>>

\* the bytes hash_and_point_to_scalar feeds to SHA3-512
hash_and_point_to_scalar_input(compressed_pub, message, point) ==
    compressed_pub \o message \o compress(point)

\* the nonce hash, had the private key been left out of it
sign_nonce_input_without_key(private_key, compressed_pub, message) ==
    NonceTag \o compressed_pub \o message

\* the nonce hash, had the message been left out of it
sign_nonce_input_without_message(private_key, compressed_pub, message) ==
    NonceTag \o as_bytes(private_key) \o compressed_pub

\* the bytes sign feeds to SHA3-512 for its nonce
sign_nonce_input(private_key, compressed_pub, message) ==
    NonceTag \o as_bytes(private_key) \o compressed_pub \o message

\* sign, had it multiplied e by the private key instead of its inverse
sign_without_invert(o, d, private_key, compressed_pub, message) ==
    LET q1 == Sha3Query(sign_nonce_input(private_key, compressed_pub, message))
        o1 == Ext(o, q1, d[1])
        k0 == from_bytes_mod_order_wide(o1[q1])
        k == IF k0 = 0 THEN 1 ELSE k0
        r == PointMul(k, H)
        q2 == Sha3Query(hash_and_point_to_scalar_input(compressed_pub, message, r))
        o2 == Ext(o1, q2, d[2])
        e == from_bytes_mod_order_wide(o2[q2])
        s == ScalarAdd(ScalarMul(private_key, e), k)
    IN  [k |-> k, r |-> r, e |-> e, s |-> s,
         sig |-> as_bytes(s) \o as_bytes(e),
         o |-> o2]

\* sign, had it laid the signature out as e || s
sign_e_before_s(o, d, private_key, compressed_pub, message) ==
    LET q1 == Sha3Query(sign_nonce_input(private_key, compressed_pub, message))
        o1 == Ext(o, q1, d[1])
        k0 == from_bytes_mod_order_wide(o1[q1])
        k == IF k0 = 0 THEN 1 ELSE k0
        r == PointMul(k, H)
        q2 == Sha3Query(hash_and_point_to_scalar_input(compressed_pub, message, r))
        o2 == Ext(o1, q2, d[2])
        e == from_bytes_mod_order_wide(o2[q2])
        s == ScalarAdd(ScalarMul(invert(private_key), e), k)
    IN  [k |-> k, r |-> r, e |-> e, s |-> s,
         sig |-> as_bytes(e) \o as_bytes(s),
         o |-> o2]

\* sign, had it kept a nonce of zero
sign_keeping_zero_nonce(o, d, private_key, compressed_pub, message) ==
    LET q1 == Sha3Query(sign_nonce_input(private_key, compressed_pub, message))
        o1 == Ext(o, q1, d[1])
        k0 == from_bytes_mod_order_wide(o1[q1])
        k == k0
        r == PointMul(k, H)
        q2 == Sha3Query(hash_and_point_to_scalar_input(compressed_pub, message, r))
        o2 == Ext(o1, q2, d[2])
        e == from_bytes_mod_order_wide(o2[q2])
        s == ScalarAdd(ScalarMul(invert(private_key), e), k)
    IN  [k |-> k, r |-> r, e |-> e, s |-> s,
         sig |-> as_bytes(s) \o as_bytes(e),
         o |-> o2]

\* sign, run against the outputs o drawn so far; d[1], d[2] are the outputs
\* of the two SHA3-512 calls where their input was not hashed before.
\* Returns the locals of the function, the signature bytes, and the
\* outputs as extended by the two calls.
sign(o, d, private_key, compressed_pub, message) ==
    LET q1 == Sha3Query(sign_nonce_input(private_key, compressed_pub, message))
        o1 == Ext(o, q1, d[1])
        k0 == from_bytes_mod_order_wide(o1[q1])
        k == IF k0 = 0 THEN 1 ELSE k0
        r == PointMul(k, H)
        q2 == Sha3Query(hash_and_point_to_scalar_input(compressed_pub, message, r))
        o2 == Ext(o1, q2, d[2])
        e == from_bytes_mod_order_wide(o2[q2])
        s == ScalarAdd(ScalarMul(invert(private_key), e), k)
    IN  [k |-> k, r |-> r, e |-> e, s |-> s,
         sig |-> as_bytes(s) \o as_bytes(e),
         o |-> o2]

----------------------------------------------------------------------------
(* Verification of a signature (the consumer's side of the scheme) *)

verify(o, d, public_key, message, sig) ==
    LET pub == decompress(public_key)
        s == ScalarFromCanonical(SubSeq(sig, 1, PointLen))
        e == ScalarFromCanonical(SubSeq(sig, PointLen + 1, Len(sig)))
    IN  IF Len(sig) # 2 * PointLen \/ ~pub.ok \/ ~s.ok \/ ~e.ok
        THEN [ret |-> Err("DecodeError"), o |-> o]
        ELSE LET rprime == PointSub(PointMul(s.val, H), PointMul(e.val, pub.val))
                 q == Sha3Query(hash_and_point_to_scalar_input(public_key, message, rprime))
                 o1 == Ext(o, q, d)
                 eprime == from_bytes_mod_order_wide(o1[q])
             IN  [ret |-> Ok(eprime = e.val), o |-> o1]

----------------------------------------------------------------------------
(* Writer: big-endian binary writer over a byte buffer *)

\* u64::to_be_bytes (values of the model stay below 2^31)
to_be_bytes(v) ==
    <<0, 0, 0, 0, (v \div 16777216) % 256, (v \div 65536) % 256,
      (v \div 256) % 256, v % 256>>

\* an absent value, and a present one
Some(v) == [some |-> v]
\* count as u16, data.len() as u16
as_u16(n) == n % 65536

with_capacity(cap) == <<>>
write_u8(buf, v) == Append(buf, v)
write_u16(buf, v) == buf \o <<(v \div 256) % 256, v % 256>>
write_u64(buf, v) == buf \o to_be_bytes(v)
write_bytes(buf, b) == buf \o b
write_bool(buf, v) == Append(buf, IF v THEN 1 ELSE 0)
write_optional_vec_u8(buf, value) ==
    IF value = None
    THEN write_bool(buf, FALSE)
    ELSE write_bytes(write_u16(write_bool(buf, TRUE), as_u16(Len(value.some))),
                     value.some)

\* one transfer of the list: a tuple <<asset, destination, amount>> or
\* <<asset, destination, amount, extra_data>>, extra_data None or Some(bytes)
extra_data_of(tuple) == IF Len(tuple) = 4 THEN tuple[4] ELSE None

\* an element of the list that is not a tuple (a number, say) is written as
\* the function 0 :> v; downcast::<PyTuple> succeeds on the tuples only
NotATuple(v) == [i \in {0} |-> v]
is_tuple(item) == 0 \notin DOMAIN item

item_error_without_destination(item, i) ==
    IF ~is_tuple(item)
    THEN Err(<<"transfers[", i, "]: expected a tuple">>)
    ELSE IF Len(item) < 3 \/ Len(item) > 4
    THEN Err(<<"transfers[", i, "]: expected 3 or 4 elements, got ", Len(item)>>)
    ELSE IF Len(item[1]) # 32
    THEN Err(<<"transfers[", i, "].asset: expected 32 bytes, got ", Len(item[1])>>)
    ELSE IF item[3] < 0
    THEN Err(<<"OverflowError">>)
    ELSE None

\* the error of the loop body for the element item at index i (from 0), or
\* None
item_error(item, i) ==
    IF ~is_tuple(item)
    THEN Err(<<"transfers[", i, "]: expected a tuple">>)
    ELSE IF Len(item) < 3 \/ Len(item) > 4
    THEN Err(<<"transfers[", i, "]: expected 3 or 4 elements, got ", Len(item)>>)
    ELSE IF Len(item[1]) # 32
    THEN Err(<<"transfers[", i, "].asset: expected 32 bytes, got ", Len(item[1])>>)
    ELSE IF Len(item[2]) # 32
    THEN Err(<<"transfers[", i, "].destination: expected 32 bytes, got ",
               Len(item[2])>>)
    ELSE IF item[3] < 0
    THEN Err(<<"OverflowError">>)
    ELSE None

\* the first error met by the loop in transfers[lo..hi], or None: that of
\* the first half if it has one, else that of the second half
RECURSIVE transfer_error(_, _, _)
transfer_error(transfers, lo, hi) ==
    IF lo > hi THEN None
    ELSE IF lo = hi THEN item_error(transfers[lo], lo - 1)
    ELSE LET mid == (lo + hi) \div 2
             first == transfer_error(transfers, lo, mid)
         IN  IF first # None THEN first
             ELSE transfer_error(transfers, mid + 1, hi)

\* the four writes of the loop body for one well-formed tuple
write_transfer(buf, tuple) ==
    LET w1 == write_bytes(buf, tuple[1])
        w2 == write_bytes(w1, tuple[2])
        w3 == write_u64(w2, tuple[3])
    IN  write_optional_vec_u8(w3, extra_data_of(tuple))

\* the bytes the loop writes for transfers[lo..hi], all of them well-formed:
\* those of the first half, then those of the second half
RECURSIVE write_transfers(_, _, _)
write_transfers(transfers, lo, hi) ==
    IF lo > hi THEN <<>>
    ELSE IF lo = hi THEN write_transfer(<<>>, transfers[lo])
    ELSE LET mid == (lo + hi) \div 2
         IN  write_transfers(transfers, lo, mid)
                 \o write_transfers(transfers, mid + 1, hi)

encode_transfer_payload_inner(transfers) ==
    LET count == Len(transfers)
        error == transfer_error(transfers, 1, count)
    IN  IF count = 0 THEN Err(<<"transfers list must not be empty">>)
        ELSE IF error # None THEN error
        ELSE Ok(write_bytes(write_u16(with_capacity(2 + count * 73), as_u16(count)),
                            write_transfers(transfers, 1, count)))

----------------------------------------------------------------------------
(* State *)

\* the functions are pure and keep nothing between calls: a behaviour makes
\* up to ncalls calls, each recorded with its locals and its result
CanCall == Len(calls) < ncalls

\* lazy_static: PC_GENS, G and H are made at their first use
StaticNames == {"PC_GENS", "G", "H"}
Uninitialised ==
    [n \in StaticNames |-> [state |-> "uninit", value |-> None, inits |-> 0]]

\* the value the initializer of static n makes, PC_GENS being made
StaticValue(n, st) ==
    CASE n = "PC_GENS" -> <<G, H>>
      [] n = "G" -> st["PC_GENS"].value[1]
      [] n = "H" -> st["PC_GENS"].value[2]

\* static n after a use of it by a call that runs alone
Used(st, n) ==
    IF st[n].state = "done" THEN st
    ELSE [st EXCEPT ![n] = [state |-> "done", value |-> StaticValue(n, st),
                            inits |-> st[n].inits + 1]]

\* the statics call c used: H where a keypair was derived, G and H in
\* make_shield_crypto
UsesH(c) ==
    \/ c.op = "make_shield_crypto"
    \/ /\ c.op \in {"get_public_key", "sign_data", "get_public_key_from_private",
                    "sign_with_key", "sign_transfer"}
       /\ "private" \in DOMAIN c
UsesG(c) == c.op = "make_shield_crypto"
StaticsAfter(st, c) ==
    LET s1 == IF UsesH(c) \/ UsesG(c) THEN Used(st, "PC_GENS") ELSE st
        s2 == IF UsesH(c) THEN Used(s1, "H") ELSE s1
    IN  IF UsesG(c) THEN Used(s2, "G") ELSE s2

\* call c is recorded, the outputs drawn being extended to o
Record(c, o) ==
    /\ calls' = Append(calls, [f \in (DOMAIN c) \ {"o"} |-> c[f]])
    /\ oracle' = o
    /\ UNCHANGED <<ver, ncalls>>

\* an exposed call that runs alone returns c
Return(c, o) ==
    /\ Record(c, o)
    /\ statics' = StaticsAfter(statics, c)
    /\ UNCHANGED threads

LastCall == calls[Len(calls)]
HasCall == Len(calls) > 0

SigningOps == {"sign_data", "sign_with_key", "sign_transfer"}
IsSigning(c) == c.op \in SigningOps /\ c.ret.ok

----------------------------------------------------------------------------
(* Exposed operations: keys and signatures *)

\* 32-byte private keys, one too short and one too long
PrivateKeys == {Le32(v) : v \in 0 .. MaxKey}
KeyInputs == PrivateKeys \cup {Zeros(PointLen - 1), Zeros(PointLen + 1)}

get_public_key(seed_byte) ==
    LET kp == KeypairOfByte[seed_byte]
    IN  [op |-> "get_public_key", seed_byte |-> seed_byte, private |-> kp[1],
         ret |-> Ok(compress(kp[2]))]

GetPublicKey ==
    /\ CanCall
    /\ \E seed_byte \in SeedBytes : Return(get_public_key(seed_byte), oracle)

sign_data(o, d, data, seed_byte) ==
    LET kp == KeypairOfByte[seed_byte]
        compressed == compress(kp[2])
        sg == sign(o, d, kp[1], compressed, data)
    IN  [op |-> "sign_data", seed_byte |-> seed_byte, private |-> kp[1],
         public |-> kp[2], compressed_pub |-> compressed, message |-> data,
         k |-> sg.k, r |-> sg.r, e |-> sg.e, s |-> sg.s,
         ret |-> Ok(sg.sig), o |-> sg.o]

SignData ==
    /\ CanCall
    /\ \E data \in Msgs, seed_byte \in SeedBytes, d \in Digests \X Digests :
           LET c == sign_data(oracle, d, data, seed_byte) IN Return(c, c.o)

get_public_key_from_private(private_key) ==
    IF Len(private_key) # PointLen
    THEN [op |-> "get_public_key_from_private", private_key |-> private_key,
          ret |-> Err(<<"private_key must be 32 bytes, got ", Len(private_key)>>)]
    ELSE LET kp == keypair_from_private_key_bytes(private_key)
         IN  [op |-> "get_public_key_from_private", private_key |-> private_key,
              private |-> kp[1], ret |-> Ok(compress(kp[2]))]

GetPublicKeyFromPrivate ==
    /\ CanCall
    /\ \E private_key \in KeyInputs :
           Return(get_public_key_from_private(private_key), oracle)

sign_with_key(o, d, data, private_key) ==
    IF Len(private_key) # PointLen
    THEN [op |-> "sign_with_key", private_key |-> private_key,
          ret |-> Err(<<"private_key must be 32 bytes, got ", Len(private_key)>>), o |-> o]
    ELSE LET kp == keypair_from_private_key_bytes(private_key)
             compressed == compress(kp[2])
             sg == sign(o, d, kp[1], compressed, data)
         IN  [op |-> "sign_with_key", private_key |-> private_key,
              private |-> kp[1], public |-> kp[2], compressed_pub |-> compressed,
              message |-> data, k |-> sg.k, r |-> sg.r, e |-> sg.e, s |-> sg.s,
              ret |-> Ok(sg.sig), o |-> sg.o]

SignWithKey ==
    /\ CanCall
    /\ \E data \in Msgs, private_key \in KeyInputs, d \in Digests \X Digests :
           LET c == sign_with_key(oracle, d, data, private_key) IN Return(c, c.o)

\* transfer lists: none, one plain transfer, one with extra data, one whose
\* asset is short, one whose destination is long, one tuple of two
\* elements, and lists whose first transfer is valid and whose second is not
\* a tuple, has five elements, a short destination or a negative amount
Asset == Le32(1)
Destination == Le32(2)
TransferLists ==
    { <<>>,
      << <<Asset, Destination, 9>> >>,
      << <<Asset, Destination, 9, Some(<<7>>)>> >>,
      << <<Zeros(PointLen - 1), Destination, 9, None>> >>,
      << <<Asset, Zeros(PointLen + 1), 9, None>> >>,
      << <<Asset, Destination>> >>,
      << <<Asset, Destination, 9>>, NotATuple(5) >>,
      << <<Asset, Destination, 9>>, <<Asset, Destination, 9, None, None>> >>,
      << <<Asset, Destination, 9>>, <<Asset, Zeros(PointLen - 1), 9>> >>,
      << <<Asset, Destination, 9>>, <<Asset, Destination, -1>> >> }
RefHashes == {Zeros(PointLen), Zeros(PointLen - 1), Zeros(PointLen + 1)}

sign_transfer_tx_type_zero(o, d, seed_byte, chain_id, nonce, fee, fee_type, ref_hash, ref_topo, transfers) ==
    LET kp == KeypairOfByte[seed_byte]
        compressed == compress(kp[2])
        source == compressed
        payload == encode_transfer_payload_inner(transfers)
        w1 == write_u8(with_capacity(92 + Len(payload.val)), 1)
        w2 == write_u8(w1, chain_id)
        w3 == write_bytes(w2, source)
        w4 == write_u8(w3, 0)
        w5 == write_bytes(w4, payload.val)
        w6 == write_u64(w5, fee)
        w7 == write_u8(w6, fee_type)
        w8 == write_u64(w7, nonce)
        w9 == write_bytes(w8, ref_hash)
        signing_bytes == write_u64(w9, ref_topo)
        sg == sign(o, d, kp[1], source, signing_bytes)
    IN  IF Len(ref_hash) # 32
        THEN [op |-> "sign_transfer", seed_byte |-> seed_byte,
              chain_id |-> chain_id, nonce |-> nonce, fee |-> fee,
              fee_type |-> fee_type, ref_hash |-> ref_hash,
              ref_topo |-> ref_topo, transfers |-> transfers,
              ret |-> Err(<<"ref_hash must be 32 bytes, got ", Len(ref_hash)>>),
              o |-> o]
        ELSE IF ~payload.ok
        THEN [op |-> "sign_transfer", seed_byte |-> seed_byte,
              chain_id |-> chain_id, nonce |-> nonce, fee |-> fee,
              fee_type |-> fee_type, ref_hash |-> ref_hash,
              ref_topo |-> ref_topo, transfers |-> transfers,
              private |-> kp[1], ret |-> payload, o |-> o]
        ELSE [op |-> "sign_transfer", seed_byte |-> seed_byte,
              chain_id |-> chain_id, nonce |-> nonce, fee |-> fee,
              fee_type |-> fee_type, ref_hash |-> ref_hash,
              ref_topo |-> ref_topo, transfers |-> transfers,
              private |-> kp[1], public |-> kp[2], compressed_pub |-> compressed,
              message |-> signing_bytes, k |-> sg.k, r |-> sg.r, e |-> sg.e,
              s |-> sg.s,
              ret |-> Ok(sg.sig), o |-> sg.o]

sign_transfer(o, d, seed_byte, chain_id, nonce, fee, fee_type, ref_hash, ref_topo, transfers) ==
    LET kp == KeypairOfByte[seed_byte]
        compressed == compress(kp[2])
        source == compressed
        payload == encode_transfer_payload_inner(transfers)
        w1 == write_u8(with_capacity(92 + Len(payload.val)), 1)
        w2 == write_u8(w1, chain_id)
        w3 == write_bytes(w2, source)
        w4 == write_u8(w3, 1)
        w5 == write_bytes(w4, payload.val)
        w6 == write_u64(w5, fee)
        w7 == write_u8(w6, fee_type)
        w8 == write_u64(w7, nonce)
        w9 == write_bytes(w8, ref_hash)
        signing_bytes == write_u64(w9, ref_topo)
        sg == sign(o, d, kp[1], source, signing_bytes)
    IN  IF Len(ref_hash) # 32
        THEN [op |-> "sign_transfer", seed_byte |-> seed_byte,
              chain_id |-> chain_id, nonce |-> nonce, fee |-> fee,
              fee_type |-> fee_type, ref_hash |-> ref_hash,
              ref_topo |-> ref_topo, transfers |-> transfers,
              ret |-> Err(<<"ref_hash must be 32 bytes, got ", Len(ref_hash)>>),
              o |-> o]
        ELSE IF ~payload.ok
        THEN [op |-> "sign_transfer", seed_byte |-> seed_byte,
              chain_id |-> chain_id, nonce |-> nonce, fee |-> fee,
              fee_type |-> fee_type, ref_hash |-> ref_hash,
              ref_topo |-> ref_topo, transfers |-> transfers,
              private |-> kp[1], ret |-> payload, o |-> o]
        ELSE [op |-> "sign_transfer", seed_byte |-> seed_byte,
              chain_id |-> chain_id, nonce |-> nonce, fee |-> fee,
              fee_type |-> fee_type, ref_hash |-> ref_hash,
              ref_topo |-> ref_topo, transfers |-> transfers,
              private |-> kp[1], public |-> kp[2], compressed_pub |-> compressed,
              message |-> signing_bytes, k |-> sg.k, r |-> sg.r, e |-> sg.e,
              s |-> sg.s,
              ret |-> Ok(sg.sig), o |-> sg.o]

SignTransfer ==
    /\ CanCall
    /\ \E seed_byte \in SeedBytes, ref_hash \in RefHashes,
          transfers \in TransferLists, d \in Digests \X Digests :
           LET c == sign_transfer(oracle, d, seed_byte, 3, 7, 1000, 0, ref_hash,
                                  5, transfers)
           IN  Return(c, c.o)

\* encoded payloads of 0 to MaxPayload bytes
Payloads == {[i \in 1 .. n |-> 16 + i] : n \in 0 .. MaxPayload}
\* sources: two public keys, and byte strings one too short and one too long
Sources == {compress(0), compress(H), Zeros(PointLen - 1), Zeros(PointLen + 1)}

build_signing_bytes_fee_type_first(version, chain_id, source, tx_type_id, encoded_payload, fee, fee_type, nonce, ref_hash, ref_topo) ==
    LET w1 == write_u8(with_capacity(92 + Len(encoded_payload)), version)
        w2 == write_u8(w1, chain_id)
        w3 == write_bytes(w2, source)
        w4 == write_u8(w3, tx_type_id)
        w5 == write_bytes(w4, encoded_payload)
        w6 == write_u8(w5, fee_type)
        w7 == write_u64(w6, fee)
        w8 == write_u64(w7, nonce)
        w9 == write_bytes(w8, ref_hash)
        w10 == write_u64(w9, ref_topo)
        args == [op |-> "build_signing_bytes", version |-> version,
                 chain_id |-> chain_id, source |-> source,
                 tx_type_id |-> tx_type_id, encoded_payload |-> encoded_payload,
                 fee |-> fee, fee_type |-> fee_type, nonce |-> nonce,
                 ref_hash |-> ref_hash, ref_topo |-> ref_topo]
    IN  IF Len(source) # 32
        THEN args @@ [ret |-> Err(<<"source must be 32 bytes, got ", Len(source)>>)]
        ELSE IF Len(ref_hash) # 32
        THEN args @@ [ret |-> Err(<<"ref_hash must be 32 bytes, got ", Len(ref_hash)>>)]
        ELSE args @@ [ret |-> Ok(w10)]

build_signing_bytes_without_source_check(version, chain_id, source, tx_type_id, encoded_payload, fee, fee_type, nonce, ref_hash, ref_topo) ==
    LET w1 == write_u8(with_capacity(92 + Len(encoded_payload)), version)
        w2 == write_u8(w1, chain_id)
        w3 == write_bytes(w2, source)
        w4 == write_u8(w3, tx_type_id)
        w5 == write_bytes(w4, encoded_payload)
        w6 == write_u64(w5, fee)
        w7 == write_u8(w6, fee_type)
        w8 == write_u64(w7, nonce)
        w9 == write_bytes(w8, ref_hash)
        w10 == write_u64(w9, ref_topo)
        args == [op |-> "build_signing_bytes", version |-> version,
                 chain_id |-> chain_id, source |-> source,
                 tx_type_id |-> tx_type_id, encoded_payload |-> encoded_payload,
                 fee |-> fee, fee_type |-> fee_type, nonce |-> nonce,
                 ref_hash |-> ref_hash, ref_topo |-> ref_topo]
    IN  IF Len(ref_hash) # 32
        THEN args @@ [ret |-> Err(<<"ref_hash must be 32 bytes, got ", Len(ref_hash)>>)]
        ELSE args @@ [ret |-> Ok(w10)]

build_signing_bytes(version, chain_id, source, tx_type_id, encoded_payload, fee, fee_type, nonce, ref_hash, ref_topo) ==
    LET w1 == write_u8(with_capacity(92 + Len(encoded_payload)), version)
        w2 == write_u8(w1, chain_id)
        w3 == write_bytes(w2, source)
        w4 == write_u8(w3, tx_type_id)
        w5 == write_bytes(w4, encoded_payload)
        w6 == write_u64(w5, fee)
        w7 == write_u8(w6, fee_type)
        w8 == write_u64(w7, nonce)
        w9 == write_bytes(w8, ref_hash)
        w10 == write_u64(w9, ref_topo)
        args == [op |-> "build_signing_bytes", version |-> version,
                 chain_id |-> chain_id, source |-> source,
                 tx_type_id |-> tx_type_id, encoded_payload |-> encoded_payload,
                 fee |-> fee, fee_type |-> fee_type, nonce |-> nonce,
                 ref_hash |-> ref_hash, ref_topo |-> ref_topo]
    IN  IF Len(source) # 32
        THEN args @@ [ret |-> Err(<<"source must be 32 bytes, got ", Len(source)>>)]
        ELSE IF Len(ref_hash) # 32
        THEN args @@ [ret |-> Err(<<"ref_hash must be 32 bytes, got ", Len(ref_hash)>>)]
        ELSE args @@ [ret |-> Ok(w10)]

BuildSigningBytes ==
    /\ CanCall
    /\ \E source \in Sources, encoded_payload \in Payloads, fee \in {0, 258},
          nonce \in {7, 66051}, ref_hash \in RefHashes, ref_topo \in {5, 16909060} :
           Return(build_signing_bytes(1, 3, source, 2, encoded_payload, fee, 1,
                                      nonce, ref_hash, ref_topo), oracle)

\* extra data of 0, 1 and MaxExtraLen bytes
ExtraData == {Some([i \in 1 .. n |-> 7]) : n \in {0, 1, MaxExtraLen}}
\* the lists given to encode_transfer_payload: those of sign_transfer, one
\* transfer with each extra data, one transfer whose extra data is None, and
\* two transfers, the first with extra data
PayloadTransferLists ==
    TransferLists
    \cup {<< <<Asset, Destination, 9, x>> >> : x \in ExtraData \cup {None}}
    \cup {<< <<Asset, Destination, 258, Some(<<7, 8>>)>>, <<Destination, Asset, 9>> >>}

encode_transfer_payload(transfers) ==
    [op |-> "encode_transfer_payload", transfers |-> transfers,
     ret |-> encode_transfer_payload_inner(transfers)]

EncodeTransferPayload ==
    /\ CanCall
    /\ \E transfers \in PayloadTransferLists :
           Return(encode_transfer_payload(transfers), oracle)

\* encode_transfer_payload on a list of n equal transfers, recorded by the
\* length of the list, the first two bytes of the payload and its length
encode_transfer_payload_count(n, amount) ==
    LET transfers == [i \in 1 .. n |-> <<Asset, Destination, amount>>]
        ret == encode_transfer_payload(transfers).ret
    IN  [op |-> "encode_transfer_payload", ntransfers |-> n, amount |-> amount,
         ok |-> ret.ok, count_prefix |-> SubSeq(ret.val, 1, 2),
         len |-> Len(ret.val)]

EncodeTransferPayloadCount ==
    /\ CanCall
    /\ \E n \in (1 .. MaxShortList) \cup {MaxTransfers - 1, MaxTransfers},
          amount \in {0, 9, 258} :
           /\ (n > MaxShortList => amount = 9)
           /\ Return(encode_transfer_payload_count(n, amount), oracle)

\* assets: one of 32 bytes, one too short and one too long
Assets == {Asset, Zeros(PointLen - 1), Zeros(PointLen + 1)}

encode_burn_payload_amount_first(asset, amount) ==
    IF Len(asset) # 32
    THEN [op |-> "encode_burn_payload", asset |-> asset, amount |-> amount,
          ret |-> Err(<<"asset must be 32 bytes, got ", Len(asset)>>)]
    ELSE [op |-> "encode_burn_payload", asset |-> asset, amount |-> amount,
          ret |-> Ok(write_bytes(write_u64(with_capacity(40), amount), asset))]

encode_burn_payload(asset, amount) ==
    IF Len(asset) # 32
    THEN [op |-> "encode_burn_payload", asset |-> asset, amount |-> amount,
          ret |-> Err(<<"asset must be 32 bytes, got ", Len(asset)>>)]
    ELSE [op |-> "encode_burn_payload", asset |-> asset, amount |-> amount,
          ret |-> Ok(write_u64(write_bytes(with_capacity(40), asset), amount))]

EncodeBurnPayload ==
    /\ CanCall
    /\ \E asset \in Assets, amount \in {0, 258} :
           Return(encode_burn_payload(asset, amount), oracle)

\* gen_discv6_vectors: the identity keypair, refused for a zero scalar
keypair_from_secret_bytes(bytes) ==
    LET scalar == from_bytes_mod_order(bytes)
    IN  IF scalar = 0
        THEN [op |-> "keypair_from_secret_bytes", private |-> scalar,
              ret |-> Err("None")]
        ELSE [op |-> "keypair_from_secret_bytes", private |-> scalar,
              ret |-> Ok(compress(PointMul(invert(scalar), H)))]

KeypairFromSecretBytes ==
    /\ CanCall
    /\ \E bytes \in PrivateKeys : Return(keypair_from_secret_bytes(bytes), oracle)

\* gen_discv6_vectors: a ^ b of two bytes
RECURSIVE xor(_, _)
xor(x, y) ==
    IF x = 0 /\ y = 0 THEN 0
    ELSE 2 * xor(x \div 2, y \div 2) + ((x + y) % 2)

xor_distance(a, b) == [i \in 1 .. 32 |-> xor(a[i], b[i])]

RECURSIVE leading_zeros_from_lsb(_)
leading_zeros_from_lsb(byte) ==
    IF byte = 0 THEN 8
    ELSE IF byte % 2 = 1 THEN 0
    ELSE 1 + leading_zeros_from_lsb(byte \div 2)

\* u8::leading_zeros
RECURSIVE leading_zeros(_)
leading_zeros(byte) ==
    IF byte = 0 THEN 8 ELSE leading_zeros(byte \div 2) - 1

\* 255u8.saturating_sub(v)
saturating_sub(x, v) == IF v > x THEN 0 ELSE x - v
\* bit_position as u8
as_u8(n) == n % 256

\* the loop of log2_distance from index i (from 0) of the distance on;
\* i * 8 + leading_zeros is far below the usize at which it would saturate
RECURSIVE log2_distance_loop(_, _)
log2_distance_loop(distance, i) ==
    IF i >= 32 THEN None
    ELSE IF distance[i + 1] # 0
    THEN LET bit_position == i * 8 + leading_zeros(distance[i + 1])
         IN  Some(saturating_sub(255, as_u8(bit_position)))
    ELSE log2_distance_loop(distance, i + 1)

log2_distance(a, b) ==
    [op |-> "log2_distance", a |-> a, b |-> b,
     ret |-> log2_distance_loop(xor_distance(a, b), 0)]

\* node ids: all bytes zero, or one byte, the first, the second or the last,
\* with its lowest, its highest, two or all bits set
NodeId(i, v) == [j \in 1 .. 32 |-> IF j = i THEN v ELSE 0]
NodeIds == {NodeId(i, v) : i \in {1, 2, 32}, v \in {0, 1, 2, 3, 128, 129, 255}}

Log2Distance ==
    /\ CanCall
    /\ \E a \in NodeIds, b \in NodeIds : Return(log2_distance(a, b), oracle)

\* public keys offered to the verifier: every point, and a malformed encoding
VerifyKeys == {compress(p) : p \in Points} \cup {Le32(GroupOrder)}

\* the latest signature, held fixed, is verified under some key and message
Verify ==
    /\ HasCall /\ IsSigning(LastCall) /\ ver = None
    /\ \E public_key \in VerifyKeys, message \in Msgs \cup {LastCall.message},
          d \in Digests :
         LET v == verify(oracle, d, public_key, message, LastCall.ret.val)
         IN  /\ ver' = [public_key |-> public_key, message |-> message,
                        ret |-> v.ret]
             /\ oracle' = v.o
    /\ UNCHANGED <<calls, ncalls, statics, threads>>

----------------------------------------------------------------------------
(* Shield commitment proof *)

\* b"tos-signer/chacha-seed/v1"
ChachaSeedTag ==
    <<116, 111, 115, 45, 115, 105, 103, 110, 101, 114, 47, 99, 104, 97, 99,
      104, 97, 45, 115, 101, 101, 100, 47, 118, 49>>

\* b"shield-crypto"
ShieldCryptoLabel == <<115, 104, 105, 101, 108, 100, 45, 99, 114, 121, 112, 116, 111>>

\* chacha_seed, had b been left out of the hash
chacha_seed_without_b(label, a, b) == ChachaSeedTag \o label \o <<a>>

\* chacha_seed: the first 32 bytes of SHA3-512 over tag, label, a and b.
\* The seed is written as the bytes it is the hash of.
chacha_seed(label, a, b) == ChachaSeedTag \o label \o <<a>> \o to_be_bytes(b)

\* the n-th 64 bytes of the ChaCha20 stream seeded with seed
ChachaQuery(seed, n) == <<"chacha20", seed, n>>

\* a merlin transcript is the sequence of the operations made on it
TranscriptNew(label) == <<<<"new", label, <<>>>>>>
append_message(tr, label, message) == Append(tr, <<"append", label, message>>)
\* challenge_bytes(label, n): the query whose answer is the n bytes, and the
\* transcript after them
ChallengeQuery(tr, label, n) == <<"merlin", Append(tr, <<"challenge", label, <<n>>>>)>>
challenge_bytes(tr, label, n) == Append(tr, <<"challenge", label, <<n>>>>)

\* b"shield-commitment-proof" appended under b"dom-sep"
ShieldDomSep == <<"shield-commitment-proof">>

\* make_shield_crypto, had it appended Y_P before Y_H
make_shield_crypto_y_p_first(o, d, dest_seed, amount) ==
    LET dest_pub == KeypairOfByte[dest_seed][2]
        seed == chacha_seed(ShieldCryptoLabel, dest_seed, amount)
        q1 == ChachaQuery(seed, 1)
        o1 == Ext(o, q1, d[1])
        r == from_bytes_mod_order_wide(o1[q1])
        x == amount % GroupOrder
        commitment == PointAdd(PointMul(x, G), PointMul(r, H))
        receiver_handle == PointMul(r, dest_pub)
        t0 == append_message(TranscriptNew("shield_commitment_proof"),
                             "dom-sep", ShieldDomSep)
        q2 == ChachaQuery(seed, 2)
        o2 == Ext(o1, q2, d[2])
        k == from_bytes_mod_order_wide(o2[q2])
        y_h == compress(PointMul(k, H))
        y_p == compress(PointMul(k, dest_pub))
        t1 == append_message(append_message(t0, "Y_P", y_p), "Y_H", y_h)
        q3 == ChallengeQuery(t1, "c", 64)
        o3 == Ext(o2, q3, d[3])
        c == from_bytes_mod_order_wide(o3[q3])
        z == ScalarAdd(ScalarMul(c, r), k)
        q4 == ChallengeQuery(challenge_bytes(t1, "c", 64), "w", 64)
        o4 == Ext(o3, q4, d[4])
        t2 == challenge_bytes(challenge_bytes(t1, "c", 64), "w", 64)
    IN  [op |-> "make_shield_crypto", dest_seed |-> dest_seed, amount |-> amount,
         dest_pub |-> dest_pub, r |-> r, k |-> k, c |-> c, z |-> z,
         commitment |-> commitment, receiver_handle |-> receiver_handle,
         transcript |-> t2,
         ret |-> Ok(<<compress(commitment), compress(receiver_handle),
                      y_h \o y_p \o as_bytes(z)>>),
         o |-> o4]

\* make_shield_crypto, had it answered z = c*k + r
make_shield_crypto_swapped_response(o, d, dest_seed, amount) ==
    LET dest_pub == KeypairOfByte[dest_seed][2]
        seed == chacha_seed(ShieldCryptoLabel, dest_seed, amount)
        q1 == ChachaQuery(seed, 1)
        o1 == Ext(o, q1, d[1])
        r == from_bytes_mod_order_wide(o1[q1])
        x == amount % GroupOrder
        commitment == PointAdd(PointMul(x, G), PointMul(r, H))
        receiver_handle == PointMul(r, dest_pub)
        t0 == append_message(TranscriptNew("shield_commitment_proof"),
                             "dom-sep", ShieldDomSep)
        q2 == ChachaQuery(seed, 2)
        o2 == Ext(o1, q2, d[2])
        k == from_bytes_mod_order_wide(o2[q2])
        y_h == compress(PointMul(k, H))
        y_p == compress(PointMul(k, dest_pub))
        t1 == append_message(append_message(t0, "Y_H", y_h), "Y_P", y_p)
        q3 == ChallengeQuery(t1, "c", 64)
        o3 == Ext(o2, q3, d[3])
        c == from_bytes_mod_order_wide(o3[q3])
        z == ScalarAdd(ScalarMul(c, k), r)
        q4 == ChallengeQuery(challenge_bytes(t1, "c", 64), "w", 64)
        o4 == Ext(o3, q4, d[4])
        t2 == challenge_bytes(challenge_bytes(t1, "c", 64), "w", 64)
    IN  [op |-> "make_shield_crypto", dest_seed |-> dest_seed, amount |-> amount,
         dest_pub |-> dest_pub, r |-> r, k |-> k, c |-> c, z |-> z,
         commitment |-> commitment, receiver_handle |-> receiver_handle,
         transcript |-> t2,
         ret |-> Ok(<<compress(commitment), compress(receiver_handle),
                      y_h \o y_p \o as_bytes(z)>>),
         o |-> o4]

\* make_shield_crypto, had it left the amount out of the commitment
make_shield_crypto_without_amount(o, d, dest_seed, amount) ==
    LET dest_pub == KeypairOfByte[dest_seed][2]
        seed == chacha_seed(ShieldCryptoLabel, dest_seed, amount)
        q1 == ChachaQuery(seed, 1)
        o1 == Ext(o, q1, d[1])
        r == from_bytes_mod_order_wide(o1[q1])
        x == amount % GroupOrder
        commitment == PointMul(r, H)
        receiver_handle == PointMul(r, dest_pub)
        t0 == append_message(TranscriptNew("shield_commitment_proof"),
                             "dom-sep", ShieldDomSep)
        q2 == ChachaQuery(seed, 2)
        o2 == Ext(o1, q2, d[2])
        k == from_bytes_mod_order_wide(o2[q2])
        y_h == compress(PointMul(k, H))
        y_p == compress(PointMul(k, dest_pub))
        t1 == append_message(append_message(t0, "Y_H", y_h), "Y_P", y_p)
        q3 == ChallengeQuery(t1, "c", 64)
        o3 == Ext(o2, q3, d[3])
        c == from_bytes_mod_order_wide(o3[q3])
        z == ScalarAdd(ScalarMul(c, r), k)
        q4 == ChallengeQuery(challenge_bytes(t1, "c", 64), "w", 64)
        o4 == Ext(o3, q4, d[4])
        t2 == challenge_bytes(challenge_bytes(t1, "c", 64), "w", 64)
    IN  [op |-> "make_shield_crypto", dest_seed |-> dest_seed, amount |-> amount,
         dest_pub |-> dest_pub, r |-> r, k |-> k, c |-> c, z |-> z,
         commitment |-> commitment, receiver_handle |-> receiver_handle,
         transcript |-> t2,
         ret |-> Ok(<<compress(commitment), compress(receiver_handle),
                      y_h \o y_p \o as_bytes(z)>>),
         o |-> o4]

\* make_shield_crypto, run against the outputs o drawn so far; d[1], d[2]
\* are the two draws of the ChaCha20 stream, d[3] the bytes of challenge c
\* and d[4] those of challenge w, where they were not drawn before.
\* Returns the locals, the result and the outputs as extended.
make_shield_crypto(o, d, dest_seed, amount) ==
    LET dest_pub == KeypairOfByte[dest_seed][2]
        seed == chacha_seed(ShieldCryptoLabel, dest_seed, amount)
        q1 == ChachaQuery(seed, 1)
        o1 == Ext(o, q1, d[1])
        r == from_bytes_mod_order_wide(o1[q1])
        x == amount % GroupOrder
        commitment == PointAdd(PointMul(x, G), PointMul(r, H))
        receiver_handle == PointMul(r, dest_pub)
        t0 == append_message(TranscriptNew("shield_commitment_proof"),
                             "dom-sep", ShieldDomSep)
        q2 == ChachaQuery(seed, 2)
        o2 == Ext(o1, q2, d[2])
        k == from_bytes_mod_order_wide(o2[q2])
        y_h == compress(PointMul(k, H))
        y_p == compress(PointMul(k, dest_pub))
        t1 == append_message(append_message(t0, "Y_H", y_h), "Y_P", y_p)
        q3 == ChallengeQuery(t1, "c", 64)
        o3 == Ext(o2, q3, d[3])
        c == from_bytes_mod_order_wide(o3[q3])
        z == ScalarAdd(ScalarMul(c, r), k)
        q4 == ChallengeQuery(challenge_bytes(t1, "c", 64), "w", 64)
        o4 == Ext(o3, q4, d[4])
        t2 == challenge_bytes(challenge_bytes(t1, "c", 64), "w", 64)
    IN  [op |-> "make_shield_crypto", dest_seed |-> dest_seed, amount |-> amount,
         dest_pub |-> dest_pub, r |-> r, k |-> k, c |-> c, z |-> z,
         commitment |-> commitment, receiver_handle |-> receiver_handle,
         transcript |-> t2,
         ret |-> Ok(<<compress(commitment), compress(receiver_handle),
                      y_h \o y_p \o as_bytes(z)>>),
         o |-> o4]

----------------------------------------------------------------------------
(* Verification of a shield proof (the daemon's side of the protocol) *)

\* the verifier's two checks for (commitment, handle, recipient key, amount)
\* and a proof Y_H || Y_P || z, the challenge c read from the outputs o
shield_verify(o, commitment, handle, recipient_public, amount, proof) ==
    LET cm == decompress(commitment)
        hd == decompress(handle)
        pk == decompress(recipient_public)
        y_h == decompress(SubSeq(proof, 1, PointLen))
        y_p == decompress(SubSeq(proof, PointLen + 1, 2 * PointLen))
        z == ScalarFromCanonical(SubSeq(proof, 2 * PointLen + 1, Len(proof)))
    IN  IF Len(proof) # 3 * PointLen
           \/ ~cm.ok \/ ~hd.ok \/ ~pk.ok \/ ~y_h.ok \/ ~y_p.ok \/ ~z.ok
        THEN Err("DecodeError")
        ELSE LET t0 == append_message(TranscriptNew("shield_commitment_proof"),
                                      "dom-sep", ShieldDomSep)
                 t1 == append_message(append_message(t0, "Y_H", compress(y_h.val)),
                                      "Y_P", compress(y_p.val))
                 c == from_bytes_mod_order_wide(o[ChallengeQuery(t1, "c", 64)])
                 opening == PointSub(cm.val, PointMul(amount % GroupOrder, G))
             IN  Ok(/\ PointMul(z.val, H) = PointAdd(y_h.val, PointMul(c, opening))
                    /\ PointMul(z.val, pk.val) = PointAdd(y_p.val, PointMul(c, hd.val)))

----------------------------------------------------------------------------
(* Exposed operation: shielding *)

DestSeeds == 0 .. MaxDestSeed
Amounts == 0 .. MaxAmount

MakeShieldCrypto ==
    /\ CanCall
    /\ \E dest_seed \in DestSeeds, amount \in Amounts,
          d \in Digests \X Digests \X Digests \X Digests :
           LET c == make_shield_crypto(oracle, d, dest_seed, amount) IN Return(c, c.o)

\* two shielding operations in a row, of one unit to one of the recipients
\* (the bytes of challenge w, which the function discards, drawn as zero)
MakeShieldCryptoPair ==
    /\ CanCall
    /\ \E dest_seed \in 1 .. MaxPairSeed, amount \in {1},
          d \in Digests \X Digests \X Digests \X {0} :
           LET c == make_shield_crypto(oracle, d, dest_seed, amount) IN Return(c, c.o)

\* two shielding operations in a row, to one recipient, of one of the amounts
MakeShieldCryptoAmounts ==
    /\ CanCall
    /\ \E dest_seed \in {1}, amount \in 1 .. MaxPairAmount,
          d \in Digests \X Digests \X Digests \X {0} :
           LET c == make_shield_crypto(oracle, d, dest_seed, amount) IN Return(c, c.o)

\* b"random-valid-point", b"dummy-ct-validity-proof"
RandomValidPointLabel ==
    <<114, 97, 110, 100, 111, 109, 45, 118, 97, 108, 105, 100, 45, 112, 111,
      105, 110, 116>>
DummyCtValidityProofLabel ==
    <<100, 117, 109, 109, 121, 45, 99, 116, 45, 118, 97, 108, 105, 100, 105,
      116, 121, 45, 112, 114, 111, 111, 102>>

\* RistrettoPoint::random: the point made of 64 bytes of the stream, of value d
from_uniform_bytes(d) == d % GroupOrder

random_valid_point(o, d) ==
    LET seed == chacha_seed(RandomValidPointLabel, 0, 0)
        q1 == ChachaQuery(seed, 1)
        o1 == Ext(o, q1, d)
        point == from_uniform_bytes(o1[q1])
    IN  [op |-> "random_valid_point", ret |-> Ok(compress(point)), o |-> o1]

RandomValidPoint ==
    /\ CanCall
    /\ \E d \in Digests :
           LET c == random_valid_point(oracle, d) IN Return(c, c.o)

make_dummy_ct_validity_proof(o, d) ==
    LET seed == chacha_seed(DummyCtValidityProofLabel, 0, 0)
        q1 == ChachaQuery(seed, 1)
        o1 == Ext(o, q1, d[1])
        y0 == compress(from_uniform_bytes(o1[q1]))
        q2 == ChachaQuery(seed, 2)
        o2 == Ext(o1, q2, d[2])
        y1 == compress(from_uniform_bytes(o2[q2]))
        q3 == ChachaQuery(seed, 3)
        o3 == Ext(o2, q3, d[3])
        y2 == compress(from_uniform_bytes(o3[q3]))
        q4 == ChachaQuery(seed, 4)
        o4 == Ext(o3, q4, d[4])
        z_r == from_bytes_mod_order_wide(o4[q4])
        q5 == ChachaQuery(seed, 5)
        o5 == Ext(o4, q5, d[5])
        z_x == from_bytes_mod_order_wide(o5[q5])
    IN  [op |-> "make_dummy_ct_validity_proof",
         ret |-> Ok(y0 \o y1 \o y2 \o as_bytes(z_r) \o as_bytes(z_x)), o |-> o5]

MakeDummyCtValidityProof ==
    /\ CanCall
    /\ \E d \in Digests \X Digests \X Digests \X Digests \X Digests :
           LET c == make_dummy_ct_validity_proof(oracle, d) IN Return(c, c.o)

----------------------------------------------------------------------------
(* Specification of one call of an exposed operation, and the verification
   of the signature it returned *)

Init ==
    /\ oracle = <<>>
    /\ calls = <<>>
    /\ ver = None
    /\ ncalls = 1
    /\ statics = Uninitialised
    /\ threads = <<>>

Next ==
    \/ GetPublicKey
    \/ SignData
    \/ GetPublicKeyFromPrivate
    \/ SignWithKey
    \/ SignTransfer
    \/ BuildSigningBytes
    \/ EncodeTransferPayload
    \/ EncodeBurnPayload
    \/ KeypairFromSecretBytes
    \/ MakeShieldCrypto
    \/ RandomValidPoint
    \/ MakeDummyCtValidityProof
    \/ Log2Distance
    \/ Verify

Spec == Init /\ [][Next]_vars

----------------------------------------------------------------------------
(* Specification of two shielding operations in a row *)

InitShieldPair ==
    /\ oracle = <<>>
    /\ calls = <<>>
    /\ ver = None
    /\ ncalls = 2
    /\ statics = Uninitialised
    /\ threads = <<>>

NextShieldPair == MakeShieldCryptoPair

SpecShieldPair == InitShieldPair /\ [][NextShieldPair]_vars

(* Specification of two sign_data calls in a row *)

InitSignPair ==
    /\ oracle = <<>>
    /\ calls = <<>>
    /\ ver = None
    /\ ncalls = 2
    /\ statics = Uninitialised
    /\ threads = <<>>

NextSignPair == SignData

SpecSignPair == InitSignPair /\ [][NextSignPair]_vars

(* Specification of one call of encode_transfer_payload on a list of equal
   transfers *)

InitTransferCount ==
    /\ oracle = <<>>
    /\ calls = <<>>
    /\ ver = None
    /\ ncalls = 1
    /\ statics = Uninitialised
    /\ threads = <<>>

NextTransferCount == EncodeTransferPayloadCount

SpecTransferCount == InitTransferCount /\ [][NextTransferCount]_vars

(* Specification of two shielding operations in a row to one recipient *)

InitShieldAmounts ==
    /\ oracle = <<>>
    /\ calls = <<>>
    /\ ver = None
    /\ ncalls = 2
    /\ statics = Uninitialised
    /\ threads = <<>>

NextShieldAmounts == MakeShieldCryptoAmounts

SpecShieldAmounts == InitShieldAmounts /\ [][NextShieldAmounts]_vars

(* Specification of three calls in a row, each of them one of the operations
   that derive a key, sign, or draw from a seeded stream *)

\* the answers of the hashes and streams in this specification
RetryDigests == {1, 2}
RetrySeeds == 2 .. MaxRetrySeed
RetryTransfers == << <<Asset, Destination, 9>> >>

RetryGetPublicKey ==
    /\ CanCall
    /\ \E seed_byte \in RetrySeeds : Return(get_public_key(seed_byte), oracle)

RetryGetPublicKeyFromPrivate ==
    /\ CanCall
    /\ \E v \in RetrySeeds : Return(get_public_key_from_private(Le32(v)), oracle)

RetrySignData ==
    /\ CanCall
    /\ \E seed_byte \in RetrySeeds, d \in RetryDigests \X RetryDigests :
           LET c == sign_data(oracle, d, <<0>>, seed_byte) IN Return(c, c.o)

RetrySignWithKey ==
    /\ CanCall
    /\ \E v \in RetrySeeds, d \in RetryDigests \X RetryDigests :
           LET c == sign_with_key(oracle, d, <<0>>, Le32(v)) IN Return(c, c.o)

RetrySignTransfer ==
    /\ CanCall
    /\ \E seed_byte \in RetrySeeds, d \in RetryDigests \X RetryDigests :
           LET c == sign_transfer(oracle, d, seed_byte, 3, 7, 1000, 0,
                                  Zeros(PointLen), 5, RetryTransfers)
           IN  Return(c, c.o)

RetryMakeShieldCrypto ==
    /\ CanCall
    /\ \E dest_seed \in RetrySeeds,
          d \in RetryDigests \X RetryDigests \X RetryDigests \X {0} :
           LET c == make_shield_crypto(oracle, d, dest_seed, 1) IN Return(c, c.o)

RetryRandomValidPoint ==
    /\ CanCall
    /\ \E d \in RetryDigests :
           LET c == random_valid_point(oracle, d) IN Return(c, c.o)

RetryMakeDummyCtValidityProof ==
    /\ CanCall
    /\ \E d \in RetryDigests \X RetryDigests \X {0} \X {0} \X RetryDigests :
           LET c == make_dummy_ct_validity_proof(oracle, d) IN Return(c, c.o)

InitRetry ==
    /\ oracle = <<>>
    /\ calls = <<>>
    /\ ver = None
    /\ ncalls = 3
    /\ statics = Uninitialised
    /\ threads = <<>>

NextRetry ==
    \/ RetryGetPublicKey
    \/ RetryGetPublicKeyFromPrivate
    \/ RetrySignData
    \/ RetrySignWithKey
    \/ RetrySignTransfer
    \/ RetryMakeShieldCrypto
    \/ RetryRandomValidPoint
    \/ RetryMakeDummyCtValidityProof

SpecRetry == InitRetry /\ [][NextRetry]_vars

(* Specification of calls made from several threads at the same time: a call
   begins, uses the lazy statics in the order of its code, and returns.
   Thread t calls with the seed byte t. *)

Threads == 1 .. MaxThread
ThreadOps == {"get_public_key", "sign_data", "make_shield_crypto"}

\* the uses a call makes of the statics, in the order of its code
Deref(n) == <<"deref", n>>
Derefs(op) ==
    CASE op = "get_public_key" -> <<Deref("H")>>
      [] op = "sign_data" -> <<Deref("H"), Deref("H")>>
      [] op = "make_shield_crypto" -> <<Deref("H"), Deref("G"), Deref("H"), Deref("H")>>

\* the initializer of static n: G and H are fields of PC_GENS
Initializer(n) ==
    IF n = "PC_GENS" THEN << <<"set", n>> >>
    ELSE <<Deref("PC_GENS"), <<"set", n>> >>

\* Once::call_once, had it let a second thread in while the first runs
call_once_unsynchronised(st) ==
    CASE st.state = "done" -> "read"
      [] st.state = "uninit" -> "init"
      [] st.state = "running" -> "init"

\* Once::call_once on a static in state st: read it, run its initializer, or
\* wait for the thread that runs it
call_once(st) ==
    CASE st.state = "done" -> "read"
      [] st.state = "uninit" -> "init"
      [] st.state = "running" -> "wait"

ThreadBegin(t) ==
    /\ t \in Threads \ DOMAIN threads
    /\ \E op \in ThreadOps :
           threads' = (t :> [pc |-> "running", op |-> op, todo |-> Derefs(op)])
                      @@ threads
    /\ UNCHANGED <<oracle, calls, ver, ncalls, statics>>

ThreadDeref(t) ==
    /\ t \in DOMAIN threads
    /\ threads[t].pc = "running"
    /\ threads[t].todo # <<>>
    /\ Head(threads[t].todo)[1] = "deref"
    /\ LET n == Head(threads[t].todo)[2]
           rest == Tail(threads[t].todo)
       IN  /\ call_once(statics[n]) # "wait"
           /\ IF call_once(statics[n]) = "read"
              THEN /\ threads' = [threads EXCEPT ![t].todo = rest]
                   /\ UNCHANGED statics
              ELSE /\ threads' = [threads EXCEPT ![t].todo = Initializer(n) \o rest]
                   /\ statics' = [statics EXCEPT ![n].state = "running",
                                                 ![n].inits = @ + 1]
    /\ UNCHANGED <<oracle, calls, ver, ncalls>>

ThreadSet(t) ==
    /\ t \in DOMAIN threads
    /\ threads[t].pc = "running"
    /\ threads[t].todo # <<>>
    /\ Head(threads[t].todo)[1] = "set"
    /\ LET n == Head(threads[t].todo)[2]
       IN  statics' = [statics EXCEPT ![n].state = "done",
                                      ![n].value = StaticValue(n, statics)]
    /\ threads' = [threads EXCEPT ![t].todo = Tail(@)]
    /\ UNCHANGED <<oracle, calls, ver, ncalls>>

ThreadReturn(t) ==
    /\ t \in DOMAIN threads
    /\ threads[t].pc = "running"
    /\ threads[t].todo = <<>>
    /\ CanCall
    /\ \E d \in RetryDigests \X RetryDigests \X RetryDigests \X {0} :
           LET op == threads[t].op
               c == CASE op = "get_public_key" -> get_public_key(t) @@ [o |-> oracle]
                      [] op = "sign_data" -> sign_data(oracle, d, <<0>>, t)
                      [] op = "make_shield_crypto" -> make_shield_crypto(oracle, d, t, 1)
           IN  Record(c @@ [thread |-> t], c.o)
    /\ threads' = [threads EXCEPT ![t].pc = "returned"]
    /\ UNCHANGED statics

InitThreads ==
    /\ oracle = <<>>
    /\ calls = <<>>
    /\ ver = None
    /\ ncalls = MaxThread
    /\ statics = Uninitialised
    /\ threads = <<>>

NextThreads ==
    \E t \in Threads :
        \/ ThreadBegin(t)
        \/ ThreadDeref(t)
        \/ ThreadSet(t)
        \/ ThreadReturn(t)

SpecThreads == InitThreads /\ [][NextThreads]_vars

----------------------------------------------------------------------------
(* Properties *)

Calls == {calls[i] : i \in 1 .. Len(calls)}
SigningCalls == {c \in Calls : IsSigning(c)}
ShieldCalls == {c \in Calls : c.op = "make_shield_crypto"}

\* HashToScalar(input) is e, the hash being one already computed
HashesTo(input, e) ==
    /\ Sha3Query(input) \in DOMAIN oracle
    /\ from_bytes_mod_order_wide(oracle[Sha3Query(input)]) = e

\* C1: for every keypair (private, public) that key derivation returned and
\* every message, the signature (s, e) that sign returned satisfies the
\* verification equation: with R' = s*H - e*public, the scalar hashed from
\* public.compress() || message || R'.compress() is e.
C1_SignVerifyRoundTrip ==
    \A c \in SigningCalls :
        \E s \in Scalars, e \in Scalars :
            /\ c.ret.val = as_bytes(s) \o as_bytes(e)
            /\ HashesTo(hash_and_point_to_scalar_input(
                            compress(c.public), c.message,
                            PointSub(PointMul(s, H), PointMul(e, c.public))),
                        e)

\* a signature with e # 0 was made under a private key that is not its own
\* inverse
C1_Witness ==
    \E c \in SigningCalls :
        /\ c.private # 0 /\ invert(c.private) # c.private
        /\ c.e # 0

\* the challenge c of the transcript over (Y_H, Y_P), when it was drawn
ShieldChallengeQuery(y_h, y_p) ==
    ChallengeQuery(
        append_message(
            append_message(
                append_message(TranscriptNew("shield_commitment_proof"),
                               "dom-sep", ShieldDomSep),
                "Y_H", y_h),
            "Y_P", y_p),
        "c", 64)

\* C2: for every recipient key and amount, the (commitment, handle, proof =
\* Y_H || Y_P || z) that make_shield_crypto returned passes both checks of
\* the verifier, c being recomputed from the transcript over (Y_H, Y_P):
\* z*H = Y_H + c*(commitment - amount*G) and z*recipient_public = Y_P + c*handle.
C2_ShieldProofCompleteness ==
    \A sc \in ShieldCalls :
        /\ Len(sc.ret.val) = 3
        /\ Len(sc.ret.val[3]) = 3 * PointLen
        /\ \E commitment \in Points, handle \in Points :
            /\ sc.ret.val[1] = compress(commitment)
            /\ sc.ret.val[2] = compress(handle)
            /\ \E y_h \in Points, y_p \in Points :
                /\ SubSeq(sc.ret.val[3], 1, 2 * PointLen)
                     = compress(y_h) \o compress(y_p)
                /\ \E z \in Scalars :
                    LET recipient_public == keypair_from_byte(sc.dest_seed)[2]
                        q == ShieldChallengeQuery(compress(y_h), compress(y_p))
                        c == from_bytes_mod_order_wide(oracle[q])
                    IN  /\ SubSeq(sc.ret.val[3], 2 * PointLen + 1, 3 * PointLen)
                             = as_bytes(z)
                        /\ q \in DOMAIN oracle
                        /\ PointMul(z, H)
                             = PointAdd(y_h,
                                        PointMul(c, PointSub(commitment,
                                                             PointMul(sc.amount % GroupOrder, G))))
                        /\ PointMul(z, recipient_public)
                             = PointAdd(y_p, PointMul(c, handle))

\* a proof was made for a nonzero amount with c, r and k all nonzero and
\* k # r
C2_Witness ==
    \E sc \in ShieldCalls :
        /\ sc.amount # 0 /\ sc.dest_pub # 0
        /\ sc.c # 0 /\ sc.r # 0 /\ sc.k # 0 /\ sc.k # sc.r

\* C3: key derivation fails whenever the seed or key reduces to the zero
\* scalar: no call that derived the private key 0 returns a public key or a
\* signature.
C3_ZeroScalarRejected ==
    \A c \in Calls :
        ("private" \in DOMAIN c /\ c.private = 0) => ~c.ret.ok

\* the verifier's answer for the proof of shield call sc against the tuple
\* (commitment, handle, recipient_public, amount)
ShieldAccepts(sc, commitment, handle, recipient_public, amount) ==
    LET v == shield_verify(oracle, compress(commitment), compress(handle),
                           compress(recipient_public), amount, sc.ret.val[3])
    IN  v.ok /\ v.val

\* the amounts one away from a (amounts are unsigned)
OffByOne(a) == {a + 1} \cup (IF a > 0 THEN {a - 1} ELSE {})

\* C4 as stated: with the proof, commitment, handle and recipient key of a
\* make_shield_crypto call held fixed, verification fails for the amount
\* plus one and the amount minus one, whatever the challenge c is.
C4_AmountOffByOneFails ==
    \A sc \in ShieldCalls : \A a \in OffByOne(sc.amount) :
        ~ShieldAccepts(sc, sc.commitment, sc.receiver_handle, sc.dest_pub, a)

\* C4 as amended: verification for the amount plus or minus one fails exactly
\* when the challenge c is not zero; for c = 0 it succeeds.
C4_AmountOffByOneFailsUnlessZeroChallenge ==
    \A sc \in ShieldCalls : \A a \in OffByOne(sc.amount) :
        ShieldAccepts(sc, sc.commitment, sc.receiver_handle, sc.dest_pub, a)
            <=> sc.c = 0

\* a proof with a nonzero challenge for a nonzero amount was refused for the
\* amount plus one and for the amount minus one
C4_Witness ==
    \E sc \in ShieldCalls :
        /\ sc.c # 0 /\ sc.amount > 0 /\ sc.r # 0 /\ sc.dest_pub # 0
        /\ ~ShieldAccepts(sc, sc.commitment, sc.receiver_handle, sc.dest_pub,
                          sc.amount + 1)
        /\ ~ShieldAccepts(sc, sc.commitment, sc.receiver_handle, sc.dest_pub,
                          sc.amount - 1)

\* amounts offered to the verifier
VerifyAmounts == 0 .. (MaxAmount + 1)

\* C5 as stated, for the proofs whose challenge c is not zero: a proof made
\* for one tuple (commitment, handle, recipient_public, amount) verifies
\* against no other tuple.
C5_BoundToOneTuple ==
    \A sc \in ShieldCalls :
        sc.c # 0 =>
        \A commitment \in Points, handle \in Points, recipient_public \in Points,
           amount \in VerifyAmounts :
            <<commitment, handle, recipient_public, amount>>
                    # <<sc.commitment, sc.receiver_handle, sc.dest_pub, sc.amount>>
                => ~ShieldAccepts(sc, commitment, handle, recipient_public, amount)

\* C5 as amended: when the challenge c is not zero, the proof verifies for
\* the recipient's key against (commitment', handle', amount') exactly when
\* handle' is the handle and commitment' - amount'*G is commitment - amount*G.
C5_BoundToHandleAndOpening ==
    \A sc \in ShieldCalls :
        sc.c # 0 =>
            \A commitment \in Points, handle \in Points, amount \in VerifyAmounts :
                ShieldAccepts(sc, commitment, handle, sc.dest_pub, amount)
                    <=> /\ handle = sc.receiver_handle
                        /\ PointSub(commitment, PointMul(amount % GroupOrder, G))
                             = PointSub(sc.commitment,
                                        PointMul(sc.amount % GroupOrder, G))

\* a proof with a nonzero challenge verifies against its own tuple and against
\* commitment + G with amount + 1, and is refused for another handle
C5_Witness ==
    \E sc \in ShieldCalls :
        /\ sc.c # 0 /\ sc.r # 0 /\ sc.dest_pub # 0 /\ sc.amount # 0
        /\ ShieldAccepts(sc, sc.commitment, sc.receiver_handle, sc.dest_pub,
                         sc.amount)
        /\ ShieldAccepts(sc, PointAdd(sc.commitment, G), sc.receiver_handle,
                         sc.dest_pub, sc.amount + 1)
        /\ ~ShieldAccepts(sc, sc.commitment, PointAdd(sc.receiver_handle, G),
                          sc.dest_pub, sc.amount)

\* the verification made was of the latest signature, and accepted it
Verified == ver # None
Accepted == ver # None /\ ver.ret.ok /\ ver.ret.val

\* C6 as stated: with the signature and the public key held fixed,
\* verification fails for every message other than the signed one.
C6_OtherMessageFails ==
    (/\ Verified
     /\ ver.public_key = LastCall.compressed_pub
     /\ ver.message # LastCall.message)
        => ~Accepted

\* C6 as amended: under the signer's public key and a message m' other than
\* the signed one, verification succeeds exactly when the scalar hashed from
\* public || m' || R, R = k*H the signer's nonce point, is the signature's e.
C6_OtherMessageFailsUnlessCollision ==
    (/\ Verified
     /\ ver.public_key = LastCall.compressed_pub
     /\ ver.message # LastCall.message)
        => (Accepted <=>
               HashesTo(hash_and_point_to_scalar_input(
                            LastCall.compressed_pub, ver.message, LastCall.r),
                        LastCall.e))

\* a signature under a key that is not its own inverse, with e # 0, was
\* refused for another message
C6_Witness ==
    /\ Verified
    /\ ver.public_key = LastCall.compressed_pub
    /\ ver.message # LastCall.message
    /\ LastCall.private # 0 /\ invert(LastCall.private) # LastCall.private
    /\ LastCall.e # 0
    /\ ~Accepted

\* the public key bytes derived from a seed byte
PublicKeyOf(seed_byte) == compress(keypair_from_byte(seed_byte)[2])

\* the signature of sign_data under seed byte a was verified, for the
\* message signed, under the key of seed byte b
VerifiedUnderSeed(a, b) ==
    /\ Verified
    /\ LastCall.op = "sign_data" /\ LastCall.seed_byte = a
    /\ ver.message = LastCall.message
    /\ ver.public_key = PublicKeyOf(b)

\* C7 as stated: a signature of sign_data with seed byte a verifies under the
\* public key of seed byte a and under the public key of no other seed byte b.
C7_OnlyOwnKeyVerifies ==
    \A a \in SeedBytes, b \in SeedBytes :
        VerifiedUnderSeed(a, b) => (Accepted <=> a = b)

\* C7 as amended: it verifies under the public key of seed byte a; under the
\* public key P_b of another seed byte b it verifies exactly when the scalar
\* hashed from P_b || message || R', R' = s*H - e*P_b = R + e*(P_a - P_b),
\* is the signature's e.
C7_OtherKeyFailsUnlessCollision ==
    \A a \in SeedBytes, b \in SeedBytes :
        VerifiedUnderSeed(a, b) =>
            IF a = b THEN Accepted
            ELSE Accepted <=>
                   HashesTo(hash_and_point_to_scalar_input(
                                PublicKeyOf(b), LastCall.message,
                                PointAdd(LastCall.r,
                                         PointMul(LastCall.e,
                                                  PointSub(LastCall.public,
                                                           keypair_from_byte(b)[2])))),
                            LastCall.e)

\* a signature of sign_data with e # 0 was refused under the key of another
\* seed byte
C7_Witness ==
    \E a \in SeedBytes, b \in SeedBytes :
        /\ a # b /\ a # 0 /\ b # 0
        /\ VerifiedUnderSeed(a, b)
        /\ LastCall.e # 0
        /\ ~Accepted

\* the scalar a call drew for its nonce k
NonceDrawn(c) ==
    IF c.op = "make_shield_crypto"
    THEN from_bytes_mod_order_wide(
             oracle[ChachaQuery(chacha_seed(ShieldCryptoLabel, c.dest_seed, c.amount), 2)])
    ELSE from_bytes_mod_order_wide(
             oracle[Sha3Query(sign_nonce_input(c.private, c.compressed_pub, c.message))])

\* C8 as stated: in sign and in make_shield_crypto alike, a nonce drawn as 0
\* is replaced by 1, so that the nonce used is never zero.
C8_ZeroNonceReplaced ==
    \A c \in SigningCalls \cup ShieldCalls :
        /\ c.k = (IF NonceDrawn(c) = 0 THEN 1 ELSE NonceDrawn(c))
        /\ c.k # 0

\* C8 as amended: sign replaces a nonce drawn as 0 by 1 and never uses the
\* zero scalar; make_shield_crypto uses the nonce as drawn, zero included.
C8_ZeroNonceReplacedInSignOnly ==
    /\ \A c \in SigningCalls :
        /\ c.k = (IF NonceDrawn(c) = 0 THEN 1 ELSE NonceDrawn(c))
        /\ c.k # 0
        /\ c.r = PointMul(c.k, H)
    /\ \A c \in ShieldCalls : c.k = NonceDrawn(c)

\* sign drew the nonce 0 and used 1
C8_Witness ==
    \E c \in SigningCalls : NonceDrawn(c) = 0 /\ c.k = 1 /\ c.r = H

\* the nonce of signing call c is the scalar hashed from
\* tag || private key || public key || message (with 1 for 0)
NonceFromPrivateKey(c) ==
    LET q == Sha3Query(NonceTag \o as_bytes(c.private) \o c.compressed_pub
                       \o c.message)
    IN  /\ q \in DOMAIN oracle
        /\ c.k = (IF from_bytes_mod_order_wide(oracle[q]) = 0 THEN 1
                  ELSE from_bytes_mod_order_wide(oracle[q]))

\* C9 as stated: sign_data, sign_with_key and sign_transfer do not derive
\* their nonce from the private key.
C9_NonceNotFromPrivateKey ==
    \A c \in SigningCalls : ~NonceFromPrivateKey(c)

\* C9 as amended: sign_data, sign_with_key and sign_transfer all derive their
\* nonce from the private key, as the scalar hashed from
\* tag || private key || public key || message.
C9_NonceFromPrivateKey ==
    \A c \in SigningCalls : NonceFromPrivateKey(c)

\* sign_transfer signed a frame under a nonzero key
C9_Witness ==
    \E c \in SigningCalls :
        /\ c.op = "sign_transfer" /\ c.private # 0
        /\ Len(c.message) > 92
        /\ NonceFromPrivateKey(c)

\* C10 as stated: no two make_shield_crypto calls use the same r, and no two
\* use the same k.
C10_FreshBlindingAndNonce ==
    \A i \in 1 .. Len(calls), j \in 1 .. Len(calls) :
        i < j => calls[i].r # calls[j].r /\ calls[i].k # calls[j].k

\* the n-th scalar of the ChaCha20 stream that make_shield_crypto seeds
\* from dest_seed and amount
StreamScalar(dest_seed, amount, n) ==
    from_bytes_mod_order_wide(
        oracle[ChachaQuery(ChachaSeedTag \o ShieldCryptoLabel \o <<dest_seed>>
                           \o to_be_bytes(amount), n)])

\* C10 as amended: r and k are the first and the second scalar of the stream
\* seeded from (dest_seed, amount), so that two calls with the same
\* arguments use the same r and the same k and return the same result.
C10_BlindingAndNonceFromArguments ==
    /\ \A i \in 1 .. Len(calls) :
        /\ ChachaQuery(ChachaSeedTag \o ShieldCryptoLabel \o <<calls[i].dest_seed>>
                       \o to_be_bytes(calls[i].amount), 1) \in DOMAIN oracle
        /\ ChachaQuery(ChachaSeedTag \o ShieldCryptoLabel \o <<calls[i].dest_seed>>
                       \o to_be_bytes(calls[i].amount), 2) \in DOMAIN oracle
        /\ calls[i].r = StreamScalar(calls[i].dest_seed, calls[i].amount, 1)
        /\ calls[i].k = StreamScalar(calls[i].dest_seed, calls[i].amount, 2)
    /\ \A i \in 1 .. Len(calls), j \in 1 .. Len(calls) :
        (calls[i].dest_seed = calls[j].dest_seed /\ calls[i].amount = calls[j].amount)
            => /\ calls[i].r = calls[j].r
               /\ calls[i].k = calls[j].k
               /\ calls[i].ret = calls[j].ret

\* two calls with the same arguments used the same nonzero r and k
C10_Witness ==
    /\ Len(calls) = 2
    /\ calls[1].dest_seed = calls[2].dest_seed /\ calls[1].amount = calls[2].amount
    /\ calls[1].r = calls[2].r /\ calls[1].r # 0
    /\ calls[1].k = calls[2].k /\ calls[1].k # 0

\* the nonce of a signing call whose nonce hash reduces to the scalar drawn
NonceOfDrawn(drawn) == IF drawn = 0 THEN 1 ELSE drawn

\* the nonce hash input of signing call c, written out
NonceHashInput(c) ==
    NonceTag \o as_bytes(c.private) \o c.compressed_pub \o c.message

\* C11 as stated: under one private key, sign never uses the same nonce k
\* (hence never the same R = k*H) for two distinct messages.
C11_NonceNeverReused ==
    \A i \in 1 .. Len(calls), j \in 1 .. Len(calls) :
        (/\ i < j
         /\ calls[i].private = calls[j].private
         /\ calls[i].message # calls[j].message)
            => calls[i].k # calls[j].k /\ calls[i].r # calls[j].r

\* C11 as amended: under one private key the nonce is the scalar hashed from
\* tag || private || public || message, with 1 for 0: the same message gets
\* the same k, and two distinct messages are hashed from distinct inputs and
\* get the same k exactly when the two hashes reduce to the same scalar or
\* to 0 and 1.
C11_NonceReusedOnlyOnCollision ==
    \A i \in 1 .. Len(calls), j \in 1 .. Len(calls) :
        calls[i].private = calls[j].private =>
            LET qi == Sha3Query(NonceHashInput(calls[i]))
                qj == Sha3Query(NonceHashInput(calls[j]))
            IN  /\ qi \in DOMAIN oracle /\ qj \in DOMAIN oracle
                /\ calls[i].k = NonceOfDrawn(from_bytes_mod_order_wide(oracle[qi]))
                /\ calls[j].k = NonceOfDrawn(from_bytes_mod_order_wide(oracle[qj]))
                /\ calls[i].message = calls[j].message => calls[i].k = calls[j].k
                /\ calls[i].message # calls[j].message => qi # qj
                /\ (calls[i].r = calls[j].r) <=> (calls[i].k = calls[j].k)

\* two distinct messages were signed under one nonzero key with distinct
\* nonces
C11_Witness ==
    /\ Len(calls) = 2
    /\ calls[1].private = calls[2].private /\ calls[1].private # 0
    /\ calls[1].message # calls[2].message
    /\ calls[1].k # calls[2].k /\ calls[1].r # calls[2].r

\* what an observer reads off the proof returned by shield call sc: the
\* response z, and the challenge c recomputed from Y_H and Y_P
ProofResponse(sc) ==
    CHOOSE z \in Scalars :
        as_bytes(z) = SubSeq(sc.ret.val[3], 2 * PointLen + 1, 3 * PointLen)
ProofChallenge(sc) ==
    from_bytes_mod_order_wide(
        oracle[ShieldChallengeQuery(SubSeq(sc.ret.val[3], 1, PointLen),
                                    SubSeq(sc.ret.val[3], PointLen + 1, 2 * PointLen))])

\* C12: when two shield proofs were made with the same nonce k for the same
\* blinding factor r, and their challenges c1, c2 differ, r is
\* (z1 - z2) / (c1 - c2), computed from the proofs alone.
C12_NonceReuseLeaksBlinding ==
    \A i \in 1 .. Len(calls), j \in 1 .. Len(calls) :
        (/\ calls[i].r = calls[j].r
         /\ calls[i].k = calls[j].k
         /\ ProofChallenge(calls[i]) # ProofChallenge(calls[j]))
            => calls[i].r
                 = ScalarMul(ScalarAdd(ProofResponse(calls[i]),
                                       ScalarNeg(ProofResponse(calls[j]))),
                             invert(ScalarAdd(ProofChallenge(calls[i]),
                                              ScalarNeg(ProofChallenge(calls[j])))))

\* two proofs to different recipients share a nonzero r and a nonzero k
\* (other than r) and have different challenges
C12_Witness ==
    /\ Len(calls) = 2
    /\ calls[1].dest_seed # calls[2].dest_seed
    /\ calls[1].r = calls[2].r /\ calls[1].r # 0
    /\ calls[1].k = calls[2].k /\ calls[1].k # 0 /\ calls[1].k # calls[1].r
    /\ ProofChallenge(calls[1]) # ProofChallenge(calls[2])

\* the public key of the keypair a call derived: the one it signed with, or
\* the point whose encoding it returned
DerivedPublic(c) ==
    IF "public" \in DOMAIN c
    THEN c.public
    ELSE CHOOSE p \in Points : compress(p) = c.ret.val

\* C13: every keypair produced by a derivation (from a seed byte or from a
\* 32-byte private key) has private # 0 and private * public = H.
C13_KeypairInvariant ==
    \A c \in Calls :
        ("private" \in DOMAIN c /\ c.ret.ok)
            => /\ c.private # 0
               /\ PointMul(c.private, DerivedPublic(c)) = H

\* the number a big-endian byte string stands for
RECURSIVE from_be_bytes(_)
from_be_bytes(bytes) ==
    IF bytes = <<>> THEN 0
    ELSE 256 * from_be_bytes(SubSeq(bytes, 1, Len(bytes) - 1)) + bytes[Len(bytes)]

\* bytes is the 8-byte big-endian form of v (v below 2^31, as every u64 of
\* the model is)
IsBigEndianU64(bytes, v) ==
    /\ Len(bytes) = 8
    /\ SubSeq(bytes, 1, 4) = Zeros(4)
    /\ bytes[5] < 128
    /\ from_be_bytes(SubSeq(bytes, 5, 8)) = v

\* the bytes of out at offset .. offset + n - 1, offsets counted from 0
Field(out, offset, n) == SubSeq(out, offset + 1, offset + n)

FrameCalls == {c \in Calls : c.op = "build_signing_bytes"}

\* C14: for every input build_signing_bytes accepts, the output is
\* version(1) || chain_id(1) || source(32) || tx_type(1) || payload ||
\* fee(8, big-endian) || fee_type(1) || nonce(8, big-endian) || ref_hash(32) ||
\* ref_topo(8, big-endian): it has 92 + len(payload) bytes and every field
\* is read back at its offset.
C14_SigningBytesLayout ==
    \A c \in FrameCalls :
        c.ret.ok =>
            LET out == c.ret.val
                n == Len(c.encoded_payload)
            IN  /\ Len(out) = 92 + n
                /\ Field(out, 0, 1) = <<c.version>>
                /\ Field(out, 1, 1) = <<c.chain_id>>
                /\ Field(out, 2, 32) = c.source
                /\ Field(out, 34, 1) = <<c.tx_type_id>>
                /\ Field(out, 35, n) = c.encoded_payload
                /\ IsBigEndianU64(Field(out, 35 + n, 8), c.fee)
                /\ Field(out, 43 + n, 1) = <<c.fee_type>>
                /\ IsBigEndianU64(Field(out, 44 + n, 8), c.nonce)
                /\ Field(out, 52 + n, 32) = c.ref_hash
                /\ IsBigEndianU64(Field(out, 84 + n, 8), c.ref_topo)

\* a frame was built over a payload of two bytes, a fee and a ref_topo of
\* more than one byte, and a source that is not all zero
C14_Witness ==
    \E c \in FrameCalls :
        /\ c.ret.ok
        /\ Len(c.encoded_payload) = 2
        /\ c.fee > 255 /\ c.nonce > 65535 /\ c.ref_topo > 16777215
        /\ c.source = compress(H)

\* the arguments of call c that must be 32 bytes long
TransferFields(transfers) ==
    UNION {{transfers[i][1], transfers[i][2]} :
               i \in {j \in 1 .. Len(transfers) :
                          is_tuple(transfers[j]) /\ Len(transfers[j]) >= 2}}
FixedWidthFields(c) ==
    CASE c.op = "build_signing_bytes" -> {c.source, c.ref_hash}
      [] c.op = "sign_transfer" -> {c.ref_hash} \cup TransferFields(c.transfers)
      [] c.op = "encode_transfer_payload" -> TransferFields(c.transfers)
      [] c.op = "encode_burn_payload" -> {c.asset}
      [] c.op \in {"sign_with_key", "get_public_key_from_private"} -> {c.private_key}
      [] OTHER -> {}

\* C15: an exposed operation given a fixed-width field (source, ref_hash,
\* asset, destination, private_key) whose length is not 32 returns an error
\* and no bytes; the field is not truncated or padded to fit.
C15_WrongLengthRejected ==
    \A c \in Calls :
        (\E f \in FixedWidthFields(c) : Len(f) # PointLen) => ~c.ret.ok

\* build_signing_bytes was given a 32-byte source and a ref_hash of 33 bytes
C15_Witness ==
    \E c \in FrameCalls :
        /\ Len(c.source) = PointLen
        /\ Len(c.ref_hash) = PointLen + 1
        /\ ~c.ret.ok

\* the calls of encode_transfer_payload that encoded a list of one transfer
OneTransferCalls ==
    {c \in Calls : /\ c.op = "encode_transfer_payload"
                   /\ c.ret.ok
                   /\ Len(c.transfers) = 1}

\* C16: after the count, asset, destination and amount of a transfer (74
\* bytes), an absent extra_data is the one byte 0, and a present one is the
\* byte 1, a big-endian u16 equal to the number of data bytes, and the data,
\* whatever its length.
C16_OptionalBytesFramed ==
    \A c \in OneTransferCalls :
        LET out == c.ret.val
            value == extra_data_of(c.transfers[1])
        IN  IF value = None
            THEN Field(out, 74, Len(out) - 74) = <<0>>
            ELSE /\ Field(out, 74, 1) = <<1>>
                 /\ from_be_bytes(Field(out, 75, 2)) = Len(value.some)
                 /\ Field(out, 77, Len(out) - 77) = value.some

\* the operations on the transcript of a proof whose commitments are y_h
\* and y_p, in the order claimed
ShieldTranscriptOps(y_h, y_p) ==
    << <<"new", "shield_commitment_proof", <<>>>>,
       <<"append", "dom-sep", ShieldDomSep>>,
       <<"append", "Y_H", y_h>>,
       <<"append", "Y_P", y_p>>,
       <<"challenge", "c", <<64>>>>,
       <<"challenge", "w", <<64>>>> >>

\* the draws of the transcript's challenges c and w, as the oracle keeps them
ShieldQueryC(y_h, y_p) == <<"merlin", SubSeq(ShieldTranscriptOps(y_h, y_p), 1, 5)>>
ShieldQueryW(y_h, y_p) == <<"merlin", ShieldTranscriptOps(y_h, y_p)>>

\* C17: the transcript of a shield proof is: domain separator, Y_H, Y_P,
\* challenge c, challenge w, in this order, with c drawn before w and w drawn
\* once; the proof Y_H || Y_P || z is made of k, r and c alone, whatever the
\* bytes of w are.
C17_TranscriptOrder ==
    \A sc \in ShieldCalls :
        LET y_h == compress(PointMul(sc.k, H))
            y_p == compress(PointMul(sc.k, sc.dest_pub))
        IN  /\ sc.transcript = ShieldTranscriptOps(y_h, y_p)
            /\ ShieldQueryC(y_h, y_p) \in DOMAIN oracle
            /\ ShieldQueryW(y_h, y_p) \in DOMAIN oracle
            /\ Cardinality({q \in DOMAIN oracle : q[1] = "merlin"}) = 2
            /\ sc.c = from_bytes_mod_order_wide(oracle[ShieldQueryC(y_h, y_p)])
            /\ sc.ret.val[3]
                 = y_h \o y_p \o as_bytes(ScalarAdd(ScalarMul(sc.c, sc.r), sc.k))

\* a proof was made whose challenge w came out different from its challenge
\* c, with r and k nonzero and Y_H different from Y_P
C17_Witness ==
    \E sc \in ShieldCalls :
        LET y_h == compress(PointMul(sc.k, H))
            y_p == compress(PointMul(sc.k, sc.dest_pub))
        IN  /\ sc.r # 0 /\ sc.k # 0 /\ y_h # y_p
            /\ from_bytes_mod_order_wide(oracle[ShieldQueryW(y_h, y_p)]) # sc.c
            /\ sc.c # 0

\* C18: a signature returned by sign_data, sign_with_key or sign_transfer
\* has 64 bytes, s in the first 32 and e in the last 32; make_shield_crypto
\* returns a commitment of 32 bytes, a handle of 32 bytes and a proof of 96
\* bytes that is Y_H (32), Y_P (32), z (32).
C18_WireLayout ==
    /\ \A c \in SigningCalls :
        /\ Len(c.ret.val) = 64
        /\ Field(c.ret.val, 0, 32) = as_bytes(c.s)
        /\ Field(c.ret.val, 32, 32) = as_bytes(c.e)
    /\ \A sc \in ShieldCalls :
        /\ Len(sc.ret.val) = 3
        /\ Len(sc.ret.val[1]) = 32
        /\ sc.ret.val[1] = compress(sc.commitment)
        /\ Len(sc.ret.val[2]) = 32
        /\ sc.ret.val[2] = compress(sc.receiver_handle)
        /\ Len(sc.ret.val[3]) = 96
        /\ Field(sc.ret.val[3], 0, 32) = compress(PointMul(sc.k, H))
        /\ Field(sc.ret.val[3], 32, 32) = compress(PointMul(sc.k, sc.dest_pub))
        /\ Field(sc.ret.val[3], 64, 32) = as_bytes(sc.z)

\* sign_transfer returned a signature whose s and e differ
C18_Witness ==
    \E c \in SigningCalls :
        /\ c.op = "sign_transfer"
        /\ c.s # c.e
        /\ c.private # 0

\* bytes is the 32-byte little-endian form of a number below the group order
IsCanonicalScalar(bytes) ==
    /\ Len(bytes) = PointLen
    /\ \A i \in 2 .. PointLen : bytes[i] = 0
    /\ bytes[1] < GroupOrder

\* C19: the scalars on the wire, s and e of every signature and z of every
\* shield proof, are below the group order, also when the private key or a
\* 64-byte hash they come from is not.
C19_WireScalarsCanonical ==
    /\ \A c \in SigningCalls :
        /\ IsCanonicalScalar(Field(c.ret.val, 0, 32))
        /\ IsCanonicalScalar(Field(c.ret.val, 32, 32))
    /\ \A sc \in ShieldCalls :
        IsCanonicalScalar(Field(sc.ret.val[3], 64, 32))

\* sign_with_key signed with a 32-byte key that is not below the group
\* order, and both of its hashes came out equal to the group order
C19_Witness ==
    \E c \in SigningCalls :
        /\ c.op = "sign_with_key"
        /\ c.private_key[1] >= GroupOrder
        /\ \A q \in DOMAIN oracle : oracle[q] = GroupOrder
        /\ Cardinality(DOMAIN oracle) = 2

\* the arguments call c was made with
Arguments(c) ==
    CASE c.op = "sign_data" -> <<c.message, c.seed_byte>>
      [] c.op = "sign_with_key" -> <<c.message, c.private_key>>
      [] c.op = "sign_transfer" -> <<c.seed_byte, c.chain_id, c.nonce, c.fee, c.fee_type, c.ref_hash, c.ref_topo, c.transfers>>
      [] c.op = "make_shield_crypto" -> <<c.dest_seed, c.amount>>
      [] c.op = "get_public_key" -> <<c.seed_byte>>
      [] c.op = "get_public_key_from_private" -> <<c.private_key>>
      [] OTHER -> <<>>

ZeroExtended(b) == [i \in 1 .. PointLen |-> IF i = 1 THEN b ELSE 0]

\* C22: get_public_key(b) returns what get_public_key_from_private returns
\* for b zero-extended to 32 bytes, and sign_data(d, b) returns what
\* sign_with_key(d, that key) returns.
C22_SeedByteIsZeroExtendedKey ==
    \A i \in 1 .. Len(calls), j \in 1 .. Len(calls) :
        /\ (/\ calls[i].op = "get_public_key"
            /\ calls[j].op = "get_public_key_from_private"
            /\ calls[j].private_key = ZeroExtended(calls[i].seed_byte))
               => calls[i].ret = calls[j].ret
        /\ (/\ calls[i].op = "sign_data"
            /\ calls[j].op = "sign_with_key"
            /\ calls[j].private_key = ZeroExtended(calls[i].seed_byte)
            /\ calls[j].message = calls[i].message)
               => calls[i].ret = calls[j].ret

\* sign_data and sign_with_key were called for the seed byte 2 and for the
\* key it extends to, and then get_public_key_from_private for that key
C22_Witness ==
    /\ Len(calls) = 3
    /\ calls[1].op = "sign_data" /\ calls[1].seed_byte = 2
    /\ calls[2].op = "sign_with_key" /\ calls[2].private_key = ZeroExtended(2)
    /\ calls[2].ret.ok /\ calls[2].e # 0
    /\ calls[3].op = "get_public_key_from_private"
    /\ calls[3].private_key = ZeroExtended(2)

\* the Pedersen commitment to amount a with blinding factor r
commit(a, r) == PointAdd(PointMul(a % GroupOrder, G), PointMul(r, H))

\* C23: the commitments of two shieldings add up to the commitment to the
\* sum of the amounts under the sum of the blinding factors; with the same
\* blinding factor they differ by (a1 - a2)*G; and the handle is r times the
\* recipient's public key, the same for every amount.
C23_CommitmentHomomorphic ==
    \A i \in 1 .. Len(calls), j \in 1 .. Len(calls) :
        LET c1 == calls[i]
            c2 == calls[j]
        IN  /\ PointAdd(c1.commitment, c2.commitment)
                 = commit(c1.amount + c2.amount, ScalarAdd(c1.r, c2.r))
            /\ c1.r = c2.r
                 => PointSub(c1.commitment, c2.commitment)
                      = PointSub(PointMul(c1.amount % GroupOrder, G),
                                 PointMul(c2.amount % GroupOrder, G))
            /\ c1.receiver_handle = PointMul(c1.r, KeypairOfByte[c1.dest_seed][2])
            /\ (c1.r = c2.r /\ c1.dest_seed = c2.dest_seed)
                 => c1.receiver_handle = c2.receiver_handle

\* two shieldings of different amounts used the same nonzero blinding factor
C23_Witness ==
    /\ Len(calls) = 2
    /\ calls[1].amount # calls[2].amount
    /\ calls[1].r = calls[2].r /\ calls[1].r # 0
    /\ calls[1].commitment # calls[2].commitment

\* ret is what call c returns when it runs alone, whatever the hashes and
\* streams answer where they were not asked before
ReturnsAlone(c, ret) ==
    \A d \in RetryDigests \X RetryDigests \X RetryDigests \X {0} :
        CASE c.op = "get_public_key" -> get_public_key(c.seed_byte).ret = ret
          [] c.op = "sign_data"
               -> sign_data(oracle, d, c.message, c.seed_byte).ret = ret
          [] c.op = "make_shield_crypto"
               -> make_shield_crypto(oracle, d, c.dest_seed, c.amount).ret = ret

\* PedersenGens::default() and its fields B and B_blinding
Generators == [n \in StaticNames |-> CASE n = "PC_GENS" -> <<G, H>> [] n = "G" -> G [] n = "H" -> H]

C29_CountPrefixIsNumberOfTransfers ==
    \A c \in Calls :
        c.ok => /\ from_be_bytes(c.count_prefix) = c.ntransfers
                /\ c.len = 2 + 73 * from_be_bytes(c.count_prefix)

\* the calls of encode_transfer_payload that accepted their list
TransferPayloadCalls ==
    {c \in Calls : c.op = "encode_transfer_payload" /\ c.ret.ok}

\* the number of bytes the entry of a transfer takes
EntryLen(tuple) ==
    73 + (IF extra_data_of(tuple) = None
          THEN 0
          ELSE 2 + Len(extra_data_of(tuple).some))

\* the offset at which the entry of transfer i starts
RECURSIVE EntryOffset(_, _)
EntryOffset(transfers, i) ==
    IF i = 1 THEN 2
    ELSE EntryOffset(transfers, i - 1) + EntryLen(transfers[i - 1])

\* the entry of a transfer is read at offset off of out
EntryLaidOut(out, off, tuple) ==
    LET value == extra_data_of(tuple)
    IN  /\ Field(out, off, 32) = tuple[1]
        /\ Field(out, off + 32, 32) = tuple[2]
        /\ IsBigEndianU64(Field(out, off + 64, 8), tuple[3])
        /\ IF value = None
           THEN Field(out, off + 72, 1) = <<0>>
           ELSE /\ Field(out, off + 72, 1) = <<1>>
                /\ from_be_bytes(Field(out, off + 73, 2)) = Len(value.some)
                /\ Field(out, off + 75, Len(value.some)) = value.some

\* C25: for every accepted transfer list the payload is the count of the
\* transfers as a big-endian u16 followed, in list order, by asset(32) ||
\* destination(32) || amount(8, big-endian) || optional extra_data for each
\* transfer, an absent extra_data (third element last, or None fourth) being
\* the one byte 0 and a present one the byte 1, its length and its bytes; the
\* payload ends with the last entry, 2 + the sum of 73 (+ 2 + len(extra_data)
\* if present) bytes in all.
C25_TransferPayloadLayout ==
    \A c \in TransferPayloadCalls :
        LET out == c.ret.val
            count == Len(c.transfers)
        IN  /\ from_be_bytes(Field(out, 0, 2)) = count
            /\ Len(out) = EntryOffset(c.transfers, count + 1)
            /\ \A i \in 1 .. count :
                   EntryLaidOut(out, EntryOffset(c.transfers, i), c.transfers[i])

BurnCalls == {c \in Calls : c.op = "encode_burn_payload"}

\* C26: for every 32-byte asset and every amount, encode_burn_payload returns
\* exactly 40 bytes, the asset in the first 32 and the amount as a big-endian
\* u64 in the last 8, so that both are read back from the payload unchanged.
C26_BurnPayloadLayout ==
    \A c \in BurnCalls :
        Len(c.asset) = PointLen
            => /\ c.ret.ok
               /\ Len(c.ret.val) = 40
               /\ Field(c.ret.val, 0, 32) = c.asset
               /\ IsBigEndianU64(Field(c.ret.val, 32, 8), c.amount)

\* a burn of an amount of more than one byte was encoded
C26_Witness ==
    \E c \in BurnCalls :
        /\ c.ret.ok
        /\ c.asset = Asset
        /\ c.amount > 255

\* the frame build_signing_bytes returns for the arguments of call c of
\* sign_transfer, with the signer's public key as source and the encoded
\* transfers as payload
TransferFrame(c) ==
    build_signing_bytes(1, c.chain_id, get_public_key(c.seed_byte).ret.val, 1,
                        encode_transfer_payload(c.transfers).ret.val, c.fee,
                        c.fee_type, c.nonce, c.ref_hash, c.ref_topo).ret

SignTransferCalls == {c \in Calls : c.op = "sign_transfer" /\ c.ret.ok}

\* C27: for all accepted inputs sign_transfer returns what sign_data returns
\* for the seed and the frame that build_signing_bytes makes of version 1,
\* the chain id, get_public_key(seed), transaction type 1, the payload of
\* encode_transfer_payload(transfers), fee, fee type, nonce, ref_hash and
\* ref_topo; that frame is the byte string it signed.
C27_SignTransferIsComposition ==
    \A c \in SignTransferCalls :
        /\ encode_transfer_payload(c.transfers).ret.ok
        /\ TransferFrame(c).ok
        /\ c.message = TransferFrame(c).val
        /\ \A d \in Digests \X Digests :
               sign_data(oracle, d, TransferFrame(c).val, c.seed_byte).ret = c.ret

\* a transfer with extra data was signed with a seed other than 0
C27_Witness ==
    \E c \in SignTransferCalls :
        /\ c.seed_byte # 0
        /\ Len(c.transfers) = 1
        /\ extra_data_of(c.transfers[1]) # None

\* an element of a transfer list that is not a valid transfer: not a tuple,
\* not of 3 or 4 elements, or with an asset or destination that is not 32
\* bytes or an amount that is not a u64
InvalidTransfer(item) ==
    \/ ~is_tuple(item)
    \/ Len(item) \notin {3, 4}
    \/ Len(item[1]) # PointLen
    \/ Len(item[2]) # PointLen
    \/ item[3] \notin Nat

RejectedList(transfers) ==
    \/ transfers = <<>>
    \/ \E i \in 1 .. Len(transfers) : InvalidTransfer(transfers[i])

\* C28: encode_transfer_payload returns an error when the list is empty or
\* any element of it is not a valid transfer, also when the elements before
\* it are valid; sign_transfer returns an error, hashes nothing and computes
\* no signature in those cases and when ref_hash is not 32 bytes.
C28_TransferErrors ==
    \A c \in Calls :
        /\ (c.op = "encode_transfer_payload" /\ RejectedList(c.transfers))
               => ~c.ret.ok
        /\ (c.op = "sign_transfer"
               /\ (RejectedList(c.transfers) \/ Len(c.ref_hash) # PointLen))
               => (~c.ret.ok /\ "s" \notin DOMAIN c /\ oracle = <<>>)

\* sign_transfer refused a list whose first transfer is valid and whose
\* second has a short destination, the ref_hash being 32 bytes
C28_Witness ==
    \E c \in Calls :
        /\ c.op = "sign_transfer"
        /\ Len(c.ref_hash) = PointLen
        /\ Len(c.transfers) = 2
        /\ ~InvalidTransfer(c.transfers[1])
        /\ is_tuple(c.transfers[2])
        /\ Len(c.transfers[2]) = 3
        /\ Len(c.transfers[2][2]) # PointLen
        /\ ~c.ret.ok

DistanceCalls == {c \in Calls : c.op = "log2_distance"}

\* bit p of a node id, p counted from the most significant bit of byte 0
BitOf(id, p) == (id[(p \div 8) + 1] \div (2 ^ (7 - (p % 8)))) % 2
\* the bits in which two node ids differ
DifferingBits(a, b) == {p \in 0 .. 255 : BitOf(a, p) # BitOf(b, p)}
FirstOf(bits) == CHOOSE p \in bits : \A q \in bits : p <= q

\* C30: log2_distance(a, b) is None exactly when a = b, and otherwise
\* Some(255 - p) with p the index, counted from the most significant bit of
\* byte 0, of the first bit in which a and b differ; it is the same for
\* (b, a) and lies in 0..255.
C30_Log2Distance ==
    \A c \in DistanceCalls :
        /\ (c.ret = None) <=> (c.a = c.b)
        /\ c.a # c.b =>
               /\ c.ret = Some(255 - FirstOf(DifferingBits(c.a, c.b)))
               /\ c.ret.some \in 0 .. 255
        /\ log2_distance(c.b, c.a).ret = c.ret

\* two node ids differ first in the lowest bit of the second byte, and also
\* in the last byte
C30_Witness ==
    \E c \in DistanceCalls :
        /\ c.a = NodeId(2, 129)
        /\ c.b = NodeId(32, 255)
        /\ c.ret = Some(247)

====
